---- MODULE Spec2Model ----
(***************************************************************************)
(* pullpush: the durable tracker (src/src/track.rs) and the way the        *)
(* orchestrator and the transfer workers drive it (src/src/main.rs).       *)
(*                                                                         *)
(* The tracker keeps a HashSet<Track> in memory, a snapshot file and a     *)
(* write-ahead log ("<snapshot>.wal") on disk.  The model follows the      *)
(* process through Tracker::new, xferred, insert_path_and_status and       *)
(* commit one file-system call at a time, so that a kill of the process    *)
(* and a failing file-system call can happen between any two of them.      *)
(***************************************************************************)
EXTENDS Integers, Sequences, FiniteSets, TLC

\* ------------------------------------------------------------------ bounds

\* The wall clock runs over 0..MaxTime seconds.
MaxTime == 2
\* std::io::BufWriter's capacity, counted in whole records instead of bytes.
BufCap == 1
\* At most MaxWal lines are appended to one WAL file.
MaxWal == 2

\* ------------------------------------------------------------------ values

\* File names the listing can yield (valid UTF-8).
Utf8Paths == {"a", "b"}
\* A file name holding a byte that is not valid UTF-8, and what
\* Path::display() prints for it (the byte replaced by U+FFFD).
RawPath == "raw_xFF"
LossyPath == "raw_uFFFD"
AllPaths == Utf8Paths \cup {RawPath}

Mtimes == 0..MaxTime
Sizes == {1, 2}
\* vfs::FileStatus of a regular file, mtime in whole seconds since the epoch.
FileStatuses == [mtime : Mtimes, size : Sizes]
\* The statuses the transfer workers and the lister hand to the tracker in
\* the runs of the model: two, which differ in mtime and in size.
LiveStatuses == {fs \in FileStatuses : fs.mtime >= 1 /\ fs.size = fs.mtime}

\* The statuses the lister hands to the tracker in the round trip: a file
\* last modified at the epoch and one modified a second later.
RoundTripStatuses == {fs \in FileStatuses : fs.mtime <= 1 /\ fs.size = 1}

\* cli.max_track_age of the runs, in seconds.
TrackAge == 1
\* A max_track_age that reaches back beyond the epoch at every time of the
\* model: no record is older ("unbounded").
Unbounded == MaxTime + 1

\* ------------------------------------------------------------ Track (pure)

\* system_time_to_u64: seconds since the epoch, 0 for a time before it.
system_time_to_u64(t) == IF t < 0 THEN 0 ELSE t

\* Track::from_sftp_entry
from_sftp_entry(path, filestat) ==
    [src_path |-> path,
     lastmod  |-> system_time_to_u64(filestat.mtime),
     size     |-> filestat.size]

\* Path::display(): lossy for a name that is not UTF-8.
display(path) == IF path = RawPath THEN LossyPath ELSE path

\* Track::write: one line "path NUL lastmod NUL size LF", here the tuple of
\* its NUL-separated fields.  A numeric field is the number it prints.
TrackWrite(t) == <<display(t.src_path), t.lastmod, t.size>>

\* str::parse::<u64>() of a field: a field that is not a decimal number is
\* modelled as -1.
ParsesU64(field) == field >= 0

\* Track::from_str: Ok when the line has at least three fields and the 2nd
\* and 3rd parse as u64 (further fields are ignored).
FromStrOk(line) ==
    /\ Len(line) >= 3
    /\ ParsesU64(line[2])
    /\ ParsesU64(line[3])

from_str(line) == [src_path |-> line[1], lastmod |-> line[2], size |-> line[3]]

\* impl PartialEq / Hash for Track: identity is the path alone.
TrackEq(t, u) == t.src_path = u.src_path

\* HashSet::contains
SetContains(s, t) == \E u \in s : TrackEq(u, t)
\* A replace that leaves the set as it is.
SetKeep(s, t) == s
\* HashSet::replace: the equal element, if any, is replaced by t.
SetReplace(s, t) == {u \in s : ~TrackEq(u, t)} \cup {t}
\* HashSet::insert: nothing happens when an equal element is present.
SetInsert(s, t) == IF SetContains(s, t) THEN s ELSE s \cup {t}

\* ------------------------------------------------------------------ files

NoFile == [exists |-> FALSE, lines |-> <<>>]
FileOf(ls) == [exists |-> TRUE, lines |-> ls]
\* std::fs::metadata(path)?.len()
FileLen(f) == Len(f.lines)

\* mtime_too_old of entries_from: now - max_track_age as u64 seconds, 0 when
\* that instant lies before the epoch.
mtime_too_old(t, max_track_age) == system_time_to_u64(t - max_track_age)

\* The loop of entries_from over the lines of a file: a line that does not
\* parse is skipped, a record not newer than the cutoff is dropped, a kept
\* record replaces the one of the same path; count counts the kept records.
RECURSIVE ReadLines(_, _, _, _)
ReadLines(lines, s, count, cutoff) ==
    IF lines = <<>> THEN [set |-> s, count |-> count]
    ELSE LET l == Head(lines) IN
         IF FromStrOk(l) /\ from_str(l).lastmod > cutoff
         THEN ReadLines(Tail(lines), SetReplace(s, from_str(l)), count + 1, cutoff)
         ELSE ReadLines(Tail(lines), s, count, cutoff)

\* The "Fishy tracker file" test at the end of entries_from.
Fishy(fs, count) == fs > 0 /\ count = 0

\* Tracker::entries_from on a file that could be opened.
entries_from(f, s, t, max_track_age) ==
    LET r == ReadLines(f.lines, s, 0, mtime_too_old(t, max_track_age)) IN
    [ok |-> ~Fishy(FileLen(f), r.count), set |-> r.set]

\* The prefixes of a sequence: what a write that may fail part-way leaves.
Prefixes(q) == {SubSeq(q, 1, n) : n \in 0..Len(q)}

\* The records a file's lines parse to.
RecordsOf(ls) == {from_str(ls[i]) : i \in {j \in 1..Len(ls) : FromStrOk(ls[j])}}

\* ------------------------------------------------ the run: values (main.rs)

\* cli.threads: the number of transfer workers.
Threads == 2
\* The configurations of the runs differ from BaseCli in at most MaxFlips
\* options.
MaxFlips == 1
MaxRuns == 2

\* The names a listing of the source directory can yield; one of them is what
\* xfer_file takes as the temporary name of the other.
SrcNames == {"a", ".tmpa"}
\* str::starts_with('.')
DotNames == {".tmpa"}
\* format!(".tmp{}", name)
TmpName(name) == ".tmp" \o name
DstNames == SrcNames \cup {TmpName(n) : n \in SrcNames}

\* vfs::FileStatus with its file_type; NoEntry stands for "no such entry".
NoEntry == [file_type |-> "NoEntry", mtime |-> 0, size |-> 0]
Regular(m) == [file_type |-> "Regular", mtime |-> m, size |-> m]
Directory == [file_type |-> "Directory", mtime |-> 1, size |-> 1]

\* What a file of the destination directory holds: the bytes of the source file
\* `of`, all of them or a part; `by` is the worker that has the file open for
\* writing (0: none).
NoDst == [of |-> "", full |-> FALSE, by |-> 0]
DstFile(name, full, w) == [of |-> name, full |-> full, by |-> w]

\* An item of the work channel: Some((path, filestat)) or None.
Some(path, filestat) == [path |-> path, filestat |-> filestat]
Sentinel == [path |-> "", filestat |-> NoEntry]

\* The options the model varies (structopt fields of cli.rs).
CliFields == {"disable_overwrite", "include_dot_files", "add_all_to_tracker",
              "threaded_copy", "dry_run", "disable_queue_as_found",
              "max_age", "min_age", "re"}
BaseCli ==
    [disable_overwrite      |-> FALSE,
     include_dot_files      |-> TRUE,
     add_all_to_tracker     |-> FALSE,
     threaded_copy          |-> FALSE,
     dry_run                |-> FALSE,
     disable_queue_as_found |-> FALSE,
     max_age                |-> MaxTime,
     min_age                |-> 0,
     re                     |-> SrcNames]
Clis ==
    {c \in [disable_overwrite      : BOOLEAN,
            include_dot_files      : BOOLEAN,
            add_all_to_tracker     : BOOLEAN,
            threaded_copy          : BOOLEAN,
            dry_run                : BOOLEAN,
            disable_queue_as_found : BOOLEAN,
            max_age                : {0, MaxTime},
            min_age                : {0, 1},
            re                     : {SrcNames, {"a"}}] :
        Cardinality({f \in CliFields : c[f] # BaseCli[f]}) <= MaxFlips}

\* The elements of a sequence.
Range(q) == {q[i] : i \in 1..Len(q)}

\* The orders in which the elements of a finite set can come.
Orders(S) ==
    {q \in [1..Cardinality(S) -> S] : \A i, j \in 1..Cardinality(S) : q[i] = q[j] => i = j}

\* Track::from_just_path
from_just_path(path) == [src_path |-> path, lastmod |-> 0, size |-> 0]

\* Tracker::path_exists_in_tracker
path_exists_in_tracker(s, path) == SetContains(s, from_just_path(path))

\* A check that answers for the path from any record of the set, whatever
\* path the record is of.
CheckAny(s, path, filestat) ==
    LET track == from_sftp_entry(path, filestat) IN
    IF s = {} THEN "None"
    ELSE IF \E u \in s : u.size = track.size /\ u.lastmod = track.lastmod THEN "Equal"
    ELSE "SizeChange"

\* Tracker::check
check(s, path, filestat) ==
    LET track == from_sftp_entry(path, filestat) IN
    IF ~SetContains(s, track) THEN "None"
    ELSE LET e == CHOOSE u \in s : TrackEq(u, track) IN
         IF e.size # track.size THEN "SizeChange"
         ELSE IF e.lastmod # track.lastmod THEN "LastModChange"
         ELSE "Equal"

\* get_file_age: 0 for a file modified in the future.
get_file_age(t, filestat) == IF filestat.mtime > t THEN 0 ELSE t - filestat.mtime

\* Paths with no final component: Path::file_name() is None.
NoFileName == {".."}

\* A filter of paths that does not ask the tracker.
KeepPathNoTracker(c, path, s) ==
    /\ path \notin NoFileName
    /\ path \in c.re
    /\ ~(path \in DotNames /\ ~c.include_dot_files)

\* A filter of paths that lets the dot files through.
KeepPathDotFiles(c, path, s) ==
    /\ path \notin NoFileName
    /\ path \in c.re
    /\ c.disable_overwrite => ~path_exists_in_tracker(s, path)

\* keep_path: a path must have a final component; then the regular
\* expression (c.re: the names it matches), the dot files, and, with
\* disable_overwrite, the tracker.
keep_path(c, path, s) ==
    /\ path \notin NoFileName
    /\ path \in c.re
    /\ ~(path \in DotNames /\ ~c.include_dot_files)
    /\ c.disable_overwrite => ~path_exists_in_tracker(s, path)

FILE_TOO_OLD == 1
FILE_TOO_YOUNG == 2
FILE_NOT_A_FILE == 4
SRC_FILE_NOT_CHANGED == 8

\* A keep_status for which a file as old as max_age is too old, and one as
\* old as min_age too young.
KeepStatusInclusive(c, path, filestat, s, t) ==
    IF filestat.file_type = "Regular"
    THEN LET age == get_file_age(t, filestat) IN
         IF age >= c.max_age THEN FILE_TOO_OLD
         ELSE IF age <= c.min_age THEN FILE_TOO_YOUNG
         ELSE IF ~c.disable_overwrite
              THEN IF check(s, path, filestat) = "Equal"
                   THEN SRC_FILE_NOT_CHANGED ELSE 0
              ELSE 0
    ELSE FILE_NOT_A_FILE

\* keep_status
keep_status(c, path, filestat, s, t) ==
    IF filestat.file_type = "Regular"
    THEN LET age == get_file_age(t, filestat) IN
         IF age > c.max_age THEN FILE_TOO_OLD
         ELSE IF age < c.min_age THEN FILE_TOO_YOUNG
         ELSE IF ~c.disable_overwrite
              THEN IF check(s, path, filestat) = "Equal"
                   THEN SRC_FILE_NOT_CHANGED ELSE 0
              ELSE 0
    ELSE FILE_NOT_A_FILE

\* Tracker::write_entries without an I/O error: the lines of the set, in the
\* order the HashSet iterates.
Snapshots(s) == {[i \in 1..Len(q) |-> TrackWrite(q[i])] : q \in Orders(s)}

\* What write_entries can put at the path of the snapshot when it returns Ok:
\* the lines of the set, or a part of them when the last write, the one in
\* the drop of the BufWriter, failed.
Written(s) == UNION {Prefixes(ls) : ls \in Snapshots(s)}

\* Tracker::new without an I/O error, as a function of the two files: the set
\* and the snapshots it can leave, or the "Fishy tracker file" error.
TrackerNew(snapf, walf, t, age) ==
    LET r1 == IF snapf.exists THEN entries_from(snapf, {}, t, age)
                              ELSE [ok |-> TRUE, set |-> {}]
        replay == walf.exists /\ FileLen(walf) > 0
        r2 == IF replay THEN entries_from(walf, r1.set, t, age) ELSE r1
    IN [ok    |-> r1.ok /\ r2.ok,
        set   |-> r2.set,
        snaps |-> IF replay THEN {FileOf(ls) : ls \in Written(r2.set)} ELSE {snapf}]

\* ------------------------------------------------------------------- state

VARIABLES
    now,            \* the wall clock, seconds since the epoch
    max_track_age,  \* cli.max_track_age, the same in every run
    snap,           \* the snapshot file (cli.track)
    tmp,            \* its sibling ".tmp_<name>"
    wal,            \* its sibling "<name>.wal"
    pc,             \* where the process is; "down" when no process runs
    op,             \* the caller of write_entries: "new", "commit", "recommit"
    set,            \* Tracker.set
    walOpen,        \* Tracker.wal is Some(BufWriter)
    walBuf,         \* the bytes that BufWriter still holds
    todo,           \* write_entries: the records the loop has yet to write
    tmpBuf,         \* write_entries: what its BufWriter still holds
    ret,            \* how the last call of the tracker's API ended
    acked,          \* per path: the status handed to the last call of xferred
                    \* for it, when that call returned Ok (None otherwise)
    last,           \* the same, of the calls of this process alone
    owed            \* the paths xferred had acknowledged in the process whose
                    \* commit failed in write_entries, until the tracker is
                    \* used again

\* The run of main.rs around the tracker: the orchestrator (run), the lister
\* thread, the transfer workers, the work channel and the two directories.
VARIABLES
    cli,            \* the options of the command line, the same in every run
    src,            \* the source directory: per name the status of the entry
    dst,            \* the destination directory: per name what the file holds
    phase,          \* where run() is: INIT, LISTING, DRAINING, COMMITTING, DONE
    exit,           \* the exit status of the process that ended last
    sentinels,      \* how many None the orchestrator has sent
    lister,         \* the lister thread: its position and its three lists
    chan,           \* the work channel (crossbeam, unbounded, FIFO)
    workers,        \* per transfer worker: its position and its work item
    hist            \* of this run: the names sent, how often each was
                    \* received, the names the tracker held when keep_path ran

VARIABLES
    call,           \* the last call of keep_path or keep_status: arguments, result
    cp,             \* one call of copier::copier: its queues, its two threads
    pool            \* one call of fast_stat::get_stats_fast

VARIABLES
    startup,        \* the start of run: SSH_SEMA and the Vfs::new of every thread
    rw,             \* the RwLock around the tracker and the threads that take it
    totals          \* the counts of the workers and the sum run makes of them

svars == <<startup, rw, totals>>

\* The three stand alone: the tracker and the run leave them as they are.
pvars == <<call, cp, pool, svars>>

rvars == <<cli, src, dst, phase, exit, sentinels, lister, chan, workers, hist, pvars>>

vars == <<now, max_track_age, snap, tmp, wal, pc, op, set, walOpen, walBuf,
          todo, tmpBuf, ret, acked, last, owed, rvars>>

disk == <<snap, tmp, wal>>
memory == <<set, walOpen, walBuf, todo, tmpBuf, op>>
ghost == <<acked, last, owed>>

None == [mtime |-> -1, size |-> 0]
NoAcks == [p \in Utf8Paths |-> None]

\* The memory of a process that has just started or has gone.
MemoryGone ==
    /\ set' = {}
    /\ walOpen' = FALSE
    /\ walBuf' = <<>>
    /\ todo' = {}
    /\ tmpBuf' = <<>>
    /\ op' = "none"

\* No process of main.rs runs (and none has run).
IdleLister == [pc |-> "idle", list |-> <<>>, xfer_list |-> <<>>, with_stat_list |-> <<>>]
IdleWorker == [pc |-> "idle", path |-> "", filestat |-> NoEntry]
NoHist == [runs |-> 0, sent |-> {}, recvd |-> [n \in SrcNames |-> 0], tracked |-> {},
           recorded |-> {}, done |-> {}, class |-> [n \in SrcNames |-> "none"],
           sends |-> [n \in SrcNames |-> 0], inserted |-> {}, skipped |-> {},
           loaded |-> {}]
NoCall == [op |-> "none", path |-> "", ret |-> 0]
NoRet == [kind |-> "none", n |-> 0]
IdleThread == [pc |-> "idle", held |-> <<>>, n |-> 0]
IdleCopier == [pc |-> "idle", len |-> 0, ring |-> 0, size |-> 0, pos |-> 0, short |-> FALSE,
               empty |-> <<>>, filled |-> <<>>, reader |-> IdleThread,
               writer |-> IdleThread, out |-> <<>>, ret |-> NoRet]
IdlePool == [pc |-> "idle", no_threads |-> 0, threads |-> <<>>, given |-> {},
             list |-> <<>>, chan |-> <<>>, nones |-> 0, results |-> <<>>, ret |-> <<>>]

IdleStartup == [pc |-> "idle", number_of_ssh_startups |-> 0, sftp |-> {}, permits |-> 0,
                released |-> 0, held |-> {}, run |-> "idle",
                xfer |-> [w \in 1..Threads |-> [pc |-> "idle", tries |-> 0]]]
NoLock == [writer |-> 0, readers |-> {}]
IdleRw == [pc |-> "idle", lock |-> NoLock, set |-> {}, buf |-> <<>>, file |-> <<>>,
           thr |-> [t \in 0..Threads |-> [pc |-> "idle", n |-> 0]]]
IdleTotals == [pc |-> "idle", chan |-> <<>>,
               xfer |-> [w \in 1..Threads |-> [pc |-> "idle", count |-> 0, size |-> 0]],
               joined |-> 0, count |-> 0, size |-> 0,
               placed |-> [files |-> 0, bytes |-> 0]]

\* The start of run, the lock and the totals are not modelled.
SidesIdle ==
    /\ startup = IdleStartup
    /\ rw = IdleRw
    /\ totals = IdleTotals

\* No call of keep_path, keep_status, copier or get_stats_fast is modelled.
ProceduresIdle ==
    /\ call = NoCall
    /\ cp = IdleCopier
    /\ pool = IdlePool
    /\ SidesIdle

RunGone ==
    /\ sentinels' = 0
    /\ lister' = IdleLister
    /\ chan' = <<>>
    /\ workers' = [w \in 1..Threads |-> IdleWorker]

\* The directories are empty and main.rs never runs.
RunAtRest ==
    /\ cli = BaseCli
    /\ src = [n \in SrcNames |-> NoEntry]
    /\ dst = [n \in DstNames |-> NoDst]
    /\ phase = "down"
    /\ exit = 0
    /\ sentinels = 0
    /\ lister = IdleLister
    /\ chan = <<>>
    /\ workers = [w \in 1..Threads |-> IdleWorker]
    /\ hist = NoHist

\* The tracker on its own.
RunIdle ==
    /\ RunAtRest
    /\ ProceduresIdle

\* No tracker is there.
TrackerAtRest ==
    /\ now = 1
    /\ max_track_age = Unbounded
    /\ snap = NoFile
    /\ tmp = NoFile
    /\ wal = NoFile
    /\ pc = "down"
    /\ op = "none"
    /\ set = {}
    /\ walOpen = FALSE
    /\ walBuf = <<>>
    /\ todo = {}
    /\ tmpBuf = <<>>
    /\ ret = "none"
    /\ acked = NoAcks
    /\ last = NoAcks
    /\ owed = {}

\* The first run: no snapshot, no WAL.
Init ==
    /\ now = 1
    /\ max_track_age = TrackAge
    /\ snap = NoFile
    /\ tmp = NoFile
    /\ wal = NoFile
    /\ pc = "down"
    /\ op = "none"
    /\ set = {}
    /\ walOpen = FALSE
    /\ walBuf = <<>>
    /\ todo = {}
    /\ tmpBuf = <<>>
    /\ ret = "none"
    /\ acked = NoAcks
    /\ last = NoAcks
    /\ owed = {}
    /\ RunIdle

\* A temporary file that write_entries has left behind.  Nothing reads it:
\* the next write_entries truncates it (File::create) before it writes, so
\* the model keeps that the file exists and forgets what it holds.
Abandoned(f) == IF f.exists THEN FileOf(<<>>) ELSE f

\* Tracker::new returns Err (or main's run does): the process ends.
NewFails(how) ==
    /\ pc' = "down"
    /\ ret' = how
    /\ owed' = IF how = "new_corrupt" THEN owed ELSE {}
    /\ MemoryGone

\* ----------------------------------------------------------- Tracker::new

\* new, first call of entries_from: the snapshot.  A file that cannot be
\* opened counts as no file; a read error or a fishy file fails new.
NewLoadSnapshot ==
    /\ pc = "down"
    /\ last' = NoAcks
    /\ UNCHANGED <<rvars, now, max_track_age, disk, acked>>
    /\ \/ /\ pc' = "n_wal"                       \* File::open fails
          /\ set' = {}
          /\ ret' = "none"
          /\ UNCHANGED <<walOpen, walBuf, todo, tmpBuf, op, owed>>
       \/ /\ snap.exists
          /\ LET r == entries_from(snap, {}, now, max_track_age) IN
             IF r.ok
             THEN /\ pc' = "n_wal"
                  /\ set' = r.set
                  /\ ret' = "none"
                  /\ UNCHANGED <<walOpen, walBuf, todo, tmpBuf, op, owed>>
             ELSE NewFails("new_corrupt")
       \/ /\ snap.exists                         \* metadata or a read fails
          /\ NewFails("new_io")

\* new, the WAL: absent or empty it is skipped, otherwise replayed over the
\* set (entries_from, for which a file that cannot be opened counts as no
\* file), and the snapshot is then rewritten.
NewReplayWal ==
    /\ pc = "n_wal"
    /\ UNCHANGED <<rvars, now, max_track_age, disk, acked, last>>
    /\ \/ /\ ~wal.exists \/ FileLen(wal) = 0
          /\ pc' = "n_create"
          /\ UNCHANGED <<memory, ret, owed>>
       \/ /\ wal.exists /\ FileLen(wal) > 0
          /\ LET r == entries_from(wal, set, now, max_track_age) IN
             IF r.ok
             THEN /\ pc' = "we_create"
                  /\ op' = "new"
                  /\ set' = r.set
                  /\ UNCHANGED <<walOpen, walBuf, todo, tmpBuf, ret, owed>>
             ELSE NewFails("new_corrupt")
       \/ /\ wal.exists /\ FileLen(wal) > 0       \* File::open fails
          /\ pc' = "we_create"
          /\ op' = "new"
          /\ UNCHANGED <<set, walOpen, walBuf, todo, tmpBuf, ret, owed>>
       \/ /\ wal.exists                          \* metadata or a read fails
          /\ NewFails("new_io")

\* ------------------------------------------------- Tracker::write_entries

\* write_entries returns Err: new fails with it, commit hands it to its
\* caller and the tracker lives on.
WriteEntriesFails ==
    IF op = "new"
    THEN NewFails("new_io")
    ELSE /\ pc' = "up"
         /\ ret' = "commit_err"
         /\ op' = "none"
         /\ todo' = {}
         /\ tmpBuf' = <<>>
         /\ owed' = IF walOpen THEN {p \in Utf8Paths : last[p] # None} ELSE {}
         /\ UNCHANGED <<set, walOpen, walBuf>>

\* File::create(&tmppath): creates or truncates the temporary file.
WriteEntriesCreate ==
    /\ pc = "we_create"
    /\ UNCHANGED <<rvars, now, max_track_age, snap, wal, acked, last>>
    /\ \/ /\ tmp' = FileOf(<<>>)
          /\ pc' = "we_write"
          /\ todo' = set
          /\ tmpBuf' = <<>>
          /\ UNCHANGED <<set, walOpen, walBuf, op, ret, owed>>
       \/ /\ UNCHANGED tmp
          /\ WriteEntriesFails

\* One turn of "for e in set { e.write(&mut buf)?; }", in the order the
\* HashSet happens to iterate.  The BufWriter takes the record into its
\* buffer; when the buffer is full it first writes the buffer out, and only
\* an error of that write is returned by e.write.
WriteEntriesWrite ==
    /\ pc = "we_write"
    /\ todo # {}
    /\ UNCHANGED <<rvars, now, max_track_age, snap, wal, acked, last>>
    /\ \E e \in todo :
         IF Len(tmpBuf) + 1 > BufCap
         THEN \/ /\ tmp' = FileOf(tmp.lines \o tmpBuf)
                 /\ tmpBuf' = <<TrackWrite(e)>>
                 /\ todo' = todo \ {e}
                 /\ UNCHANGED <<pc, set, walOpen, walBuf, op, ret, owed>>
              \/ /\ tmp' = Abandoned(tmp)
                 /\ WriteEntriesFails
         ELSE /\ tmpBuf' = Append(tmpBuf, TrackWrite(e))
              /\ todo' = todo \ {e}
              /\ UNCHANGED <<tmp, pc, set, walOpen, walBuf, op, ret, owed>>

\* The end of the inner scope: buf is dropped.  BufWriter's drop writes the
\* buffer out and ignores the outcome, so what reaches the file is the whole
\* buffer or, when the write fails, a part of it; write_entries goes on.
WriteEntriesDrop ==
    /\ pc = "we_write"
    /\ todo = {}
    /\ UNCHANGED <<rvars, now, max_track_age, snap, wal, ghost>>
    /\ \E w \in Prefixes(tmpBuf) : tmp' = FileOf(tmp.lines \o w)
    /\ tmpBuf' = <<>>
    /\ pc' = "we_rename"
    /\ UNCHANGED <<set, walOpen, walBuf, todo, op, ret>>

\* std::fs::rename(&tmppath, &path)
WriteEntriesRename ==
    /\ pc = "we_rename"
    /\ UNCHANGED <<rvars, now, max_track_age, wal, acked, last>>
    /\ \/ /\ snap' = tmp
          /\ tmp' = NoFile
          /\ pc' = IF op = "new" THEN "n_rm" ELSE "c_close"
          /\ UNCHANGED <<memory, ret, owed>>
       \/ /\ UNCHANGED snap
          /\ tmp' = Abandoned(tmp)
          /\ WriteEntriesFails

\* --------------------------------------------------- Tracker::new, the end

\* remove_file(&wal_path) after the replay
NewRemoveWal ==
    /\ pc = "n_rm"
    /\ UNCHANGED <<rvars, now, max_track_age, snap, tmp, acked, last>>
    /\ \/ /\ wal' = NoFile
          /\ pc' = "n_create"
          /\ UNCHANGED <<memory, ret, owed>>
       \/ /\ UNCHANGED wal
          /\ NewFails("new_io")

\* File::create(&wal_path): the fresh, empty WAL; new returns the tracker.
NewCreateWal ==
    /\ pc = "n_create"
    /\ UNCHANGED <<rvars, now, max_track_age, snap, tmp, acked, last>>
    /\ \/ /\ wal' = FileOf(<<>>)
          /\ pc' = "up"
          /\ ret' = "new_ok"
          /\ walOpen' = TRUE
          /\ walBuf' = <<>>
          /\ op' = "none"
          /\ UNCHANGED <<set, todo, tmpBuf, owed>>
       \/ /\ UNCHANGED wal
          /\ NewFails("new_io")

\* ------------------------------------------------- the tracker while it runs

\* What BufWriter::flush_buf does to the file and to the buffer: all of the
\* buffer is written, or the write fails after a part of it (the part that
\* was written leaves the buffer, the rest stays for the next flush).
FlushOk(f, buf) == [file |-> FileOf(f.lines \o buf), buf |-> <<>>]
FlushErr(f, buf) ==
    {[file |-> FileOf(f.lines \o SubSeq(buf, 1, n)),
      buf  |-> SubSeq(buf, n + 1, Len(buf))] : n \in 0..(Len(buf) - 1)}

\* Tracker::xferred, called under the tracker's write lock (main.rs:202):
\*   track.write(wal)   the record goes into the BufWriter, which writes its
\*                      buffer out first when it is full (an error returns);
\*   set.replace(track)
\*   wal.flush()        the buffer is written to the file (an error returns).
\* With Tracker.wal == None (after commit) the unwrap panics.
Xferred(path, filestat) ==
    /\ pc = "up"
    /\ UNCHANGED <<rvars, now, max_track_age, snap, tmp, todo, tmpBuf, op>>
    /\ owed' = {}
    /\ IF ~walOpen
       THEN /\ pc' = "down"
            /\ ret' = "panic"
            /\ set' = {}
            /\ UNCHANGED <<wal, walOpen, walBuf, acked, last>>
       ELSE /\ Len(wal.lines) + Len(walBuf) < MaxWal
            /\ UNCHANGED <<pc, walOpen>>
            /\ LET track == from_sftp_entry(path, filestat)
                   full == Len(walBuf) + 1 > BufCap
               IN
               \/ \* track.write fails: the buffer was full and its write failed
                  /\ full
                  /\ \E r \in FlushErr(wal, walBuf) :
                        /\ wal' = r.file
                        /\ walBuf' = r.buf
                  /\ ret' = "x_err"
                  /\ acked' = [acked EXCEPT ![path] = None]
                  /\ last' = [last EXCEPT ![path] = None]
                  /\ UNCHANGED set
               \/ \* track.write succeeds, then flush succeeds or fails
                  /\ LET w == IF full THEN FlushOk(wal, walBuf)
                                      ELSE [file |-> wal, buf |-> walBuf]
                         buf == Append(w.buf, TrackWrite(track))
                     IN
                     /\ set' = SetReplace(set, track)
                     /\ \/ /\ wal' = FlushOk(w.file, buf).file
                           /\ walBuf' = <<>>
                           /\ ret' = "x_ok"
                           /\ acked' = [acked EXCEPT ![path] = filestat]
                           /\ last' = [last EXCEPT ![path] = filestat]
                        \/ /\ \E r \in FlushErr(w.file, buf) :
                                 /\ wal' = r.file
                                 /\ walBuf' = r.buf
                           /\ ret' = "x_err"
                           /\ acked' = [acked EXCEPT ![path] = None]
                           /\ last' = [last EXCEPT ![path] = None]

\* The process is killed inside xferred, after the record reached the file
\* and before xferred returned to its caller.
KillInXferred(path, filestat) ==
    /\ pc = "up"
    /\ walOpen
    /\ Len(wal.lines) + Len(walBuf) < MaxWal
    /\ wal' = FileOf(wal.lines \o walBuf \o <<TrackWrite(from_sftp_entry(path, filestat))>>)
    /\ pc' = "down"
    /\ ret' = "none"
    /\ MemoryGone
    /\ acked' = [acked EXCEPT ![path] = None]
    /\ last' = [last EXCEPT ![path] = None]
    /\ owed' = {}
    /\ UNCHANGED <<rvars, now, max_track_age, snap, tmp>>

\* Tracker::insert_path_and_status: the set alone, through HashSet::insert.
InsertPathAndStatus(path, filestat) ==
    /\ pc = "up"
    /\ set' = SetInsert(set, from_sftp_entry(path, filestat))
    /\ ret' = "ins_ok"
    /\ UNCHANGED <<rvars, now, max_track_age, disk, pc, walOpen, walBuf, todo, tmpBuf, op, acked, last>>
    /\ owed' = {}

\* -------------------------------------------------------- Tracker::commit

\* commit is called; its first statement is write_entries(&self.file, &self.set).
\* A commit called right after a commit that returned Ok is a "recommit".
CommitStart ==
    /\ pc = "up"
    /\ pc' = "we_create"
    /\ op' = IF ret = "commit_ok" THEN "recommit" ELSE "commit"
    /\ ret' = "none"
    /\ UNCHANGED <<rvars, now, max_track_age, disk, set, walOpen, walBuf, todo, tmpBuf, acked, last>>
    /\ owed' = {}

\* self.wal = None: the BufWriter is dropped (what it still holds is written,
\* the outcome ignored) and the file is closed.
CommitCloseWal ==
    /\ pc = "c_close"
    /\ \E w \in Prefixes(walBuf) :
          wal' = IF walOpen THEN FileOf(wal.lines \o w) ELSE wal
    /\ walOpen' = FALSE
    /\ walBuf' = <<>>
    /\ pc' = "c_rm"
    /\ UNCHANGED <<rvars, now, max_track_age, snap, tmp, set, todo, tmpBuf, op, ret, ghost>>

\* remove_file(&logpath)?: fails when the file is not there.
CommitRemoveWal ==
    /\ pc = "c_rm"
    /\ pc' = "up"
    /\ op' = "none"
    /\ UNCHANGED <<rvars, now, max_track_age, snap, tmp, set, walOpen, walBuf, todo, tmpBuf, ghost>>
    /\ \/ /\ wal.exists
          /\ wal' = NoFile
          /\ ret' = "commit_ok"
       \/ /\ UNCHANGED wal
          /\ ret' = "commit_err"

\* ------------------------------------------------- the process and the clock

\* run returns (after commit, or with an error): the tracker is dropped, and
\* with it the WAL's BufWriter.
Exit ==
    /\ pc = "up"
    /\ \E w \in Prefixes(walBuf) :
          wal' = IF walOpen THEN FileOf(wal.lines \o w) ELSE wal
    /\ pc' = "down"
    /\ ret' = "none"
    /\ MemoryGone
    /\ UNCHANGED <<rvars, now, max_track_age, snap, tmp, ghost>>

\* The process is killed: its memory is gone, the files stay as they are.
Kill ==
    /\ pc # "down"
    /\ pc' = "down"
    /\ ret' = "none"
    /\ MemoryGone
    /\ tmp' = Abandoned(tmp)
    /\ UNCHANGED <<rvars, now, max_track_age, snap, wal, ghost>>

\* Time passes between two runs (the tracker reads the clock in new only).
Tick ==
    /\ pc = "down"
    /\ now < MaxTime
    /\ now' = now + 1
    /\ UNCHANGED <<rvars, max_track_age, disk, pc, memory, ret, ghost>>

Next ==
    \/ NewLoadSnapshot
    \/ NewReplayWal
    \/ WriteEntriesCreate
    \/ WriteEntriesWrite
    \/ WriteEntriesDrop
    \/ WriteEntriesRename
    \/ NewRemoveWal
    \/ NewCreateWal
    \/ \E p \in Utf8Paths, fs \in LiveStatuses : Xferred(p, fs)
    \/ \E p \in Utf8Paths, fs \in LiveStatuses : KillInXferred(p, fs)
    \/ \E p \in Utf8Paths, fs \in LiveStatuses : InsertPathAndStatus(p, fs)
    \/ CommitStart
    \/ CommitCloseWal
    \/ CommitRemoveWal
    \/ Exit
    \/ Kill
    \/ Tick

Spec == Init /\ [][Next]_vars

\* --------------------------------------------------------- the round trip

\* A tracker with an unbounded max_track_age in an empty directory.
InitRoundTrip ==
    /\ now \in 1..MaxTime
    /\ max_track_age = Unbounded
    /\ snap = NoFile
    /\ tmp = NoFile
    /\ wal = NoFile
    /\ pc = "down"
    /\ op = "none"
    /\ set = {}
    /\ walOpen = FALSE
    /\ walBuf = <<>>
    /\ todo = {}
    /\ tmpBuf = <<>>
    /\ ret = "none"
    /\ acked = NoAcks
    /\ last = NoAcks
    /\ owed = {}
    /\ RunIdle

\* new, a set built by insert_path_and_status from any listing (names that
\* are not UTF-8 and files last modified at the epoch included), commit, the
\* end of the process and the next new.
NextRoundTrip ==
    \/ NewLoadSnapshot
    \/ NewReplayWal
    \/ NewCreateWal
    \/ \E p \in AllPaths, fs \in RoundTripStatuses : InsertPathAndStatus(p, fs)
    \/ CommitStart
    \/ WriteEntriesCreate
    \/ WriteEntriesWrite
    \/ WriteEntriesDrop
    \/ WriteEntriesRename
    \/ CommitCloseWal
    \/ CommitRemoveWal
    \/ Exit

SpecRoundTrip == InitRoundTrip /\ [][NextRoundTrip]_vars

\* ------------------------------------------------------------ the run: run()

\* The variables no step of main.rs touches.
aside == <<max_track_age, cli, tmp, pc, op, walBuf, todo, tmpBuf, ret, acked, last, owed,
           pvars>>

Stopped == phase \in {"down", "DONE"}

\* The thread of the worker has returned: xferring gave its totals.
Ended(w) == workers[w].pc \in {"dead", "done"}

\* Every sentinel is on the channel.
SentinelsSent == sentinels = Threads

\* "for h in xfer_threads { h.join() }" has come through.
AllJoined == \A w \in 1..Threads : Ended(w)

\* run returns, or the process dies: its threads and its memory are gone.
RunEnds(status) ==
    /\ phase' = "DONE"
    /\ exit' = status
    /\ set' = {}
    /\ walOpen' = FALSE
    /\ hist' = [NoHist EXCEPT !.runs = hist.runs,
                              !.done = IF status = 0 THEN hist.recorded ELSE {}]
    /\ RunGone

\* The snapshot an earlier run left: none, or one with a record of "a".
EarlierSnapshots ==
    {NoFile} \cup {FileOf(<<TrackWrite(from_sftp_entry("a", Regular(m)))>>) : m \in 1..MaxTime}

\* Any configuration, a listing of regular files and directories written at
\* time 1, a destination that is empty or holds the file "a" already, the
\* snapshot of an earlier run.
InitRun ==
    /\ now \in 1..MaxTime
    /\ max_track_age \in {TrackAge, Unbounded}
    /\ snap \in EarlierSnapshots
    /\ tmp = NoFile
    /\ wal = NoFile
    /\ pc = "down"
    /\ op = "none"
    /\ set = {}
    /\ walOpen = FALSE
    /\ walBuf = <<>>
    /\ todo = {}
    /\ tmpBuf = <<>>
    /\ ret = "none"
    /\ acked = NoAcks
    /\ last = NoAcks
    /\ owed = {}
    /\ cli \in Clis
    /\ src \in {f \in [SrcNames -> {NoEntry, Regular(1), Directory}] :
                    f["a"] # NoEntry /\ f[".tmpa"] # Directory}
    /\ \E was \in {NoDst, DstFile("a", TRUE, 0)} :
          dst = [n \in DstNames |-> IF n = "a" THEN was ELSE NoDst]
    /\ phase = "down"
    /\ exit = 0
    /\ sentinels = 0
    /\ lister = IdleLister
    /\ chan = <<>>
    /\ workers = [w \in 1..Threads |-> IdleWorker]
    /\ hist = NoHist
    /\ ProceduresIdle

\* main calls run.
RunStart ==
    /\ phase = "down"
    /\ phase' = "INIT"
    /\ hist' = [hist EXCEPT !.runs = @ + 1]
    /\ UNCHANGED <<aside, now, snap, wal, set, walOpen, src, dst, exit, sentinels,
                   lister, chan, workers>>

\* run up to the start of the lister: the two Vfs::new, Tracker::new, the
\* spawn of the transfer workers and of the lister.  Any of the first three
\* can fail, and run returns the error.  A worker starts with its own two
\* Vfs::new, and an error there ends it before its first recv.
RunInit ==
    /\ phase = "INIT"
    /\ UNCHANGED <<aside, now, src, dst>>
    /\ LET r == TrackerNew(snap, wal, now, max_track_age) IN
       \/ /\ r.ok
          /\ snap' \in r.snaps
          /\ wal' = FileOf(<<>>)
          /\ set' = r.set
          /\ walOpen' = TRUE
          /\ \E to \in [1..Threads -> {"recv", "dead"}] :
                workers' = [w \in 1..Threads |-> [IdleWorker EXCEPT !.pc = to[w]]]
          /\ lister' = [IdleLister EXCEPT !.pc = "open_dir"]
          /\ phase' = "LISTING"
          /\ hist' = [hist EXCEPT !.loaded = r.set]
          /\ UNCHANGED <<exit, sentinels, chan>>
       \/ /\ RunEnds(1)
          /\ UNCHANGED <<snap, wal>>

\* ------------------------------------- the run: inner_lister_thread

\* open_dir and read_all_dir_entry: the entries in the order the directory
\* gives them, or an error.
ListerOpenDir ==
    /\ phase = "LISTING"
    /\ lister.pc = "open_dir"
    /\ \/ \E q \in Orders({n \in SrcNames : src[n] # NoEntry}) :
             lister' = [lister EXCEPT !.pc = "keep_path", !.list = q]
       \/ lister' = [lister EXCEPT !.pc = "err"]
    /\ UNCHANGED <<aside, now, snap, wal, set, walOpen, src, dst, phase, exit,
                   sentinels, chan, workers, hist>>

\* The filter of the listing by keep_path and, for a local source, the stat
\* of what is left by get_stats_fast, which returns Ok with fewer entries when
\* stat threads have ended on an error: any of the paths can be missing.
ListerKeepPath ==
    /\ phase = "LISTING"
    /\ lister.pc = "keep_path"
    /\ \E lost \in SUBSET SrcNames :
          LET Keep(n) == keep_path(cli, n, set) /\ n \notin lost IN
          /\ lost \subseteq Range(lister.list)
          /\ lister' = [lister EXCEPT !.pc = "keep_status",
                                      !.list = SelectSeq(lister.list, Keep)]
          /\ hist' = [hist EXCEPT !.tracked =
                        {n \in SrcNames : path_exists_in_tracker(set, n)}]
    /\ UNCHANGED <<aside, now, snap, wal, set, walOpen, src, dst, phase, exit,
                   sentinels, chan, workers>>

\* A send that puts the item on the channel twice.
SendTwice(path, class) ==
    /\ chan' = Append(Append(chan, Some(path, src[path])), Some(path, src[path]))
    /\ hist' = [hist EXCEPT !.sent = @ \cup {path}, !.sends[path] = @ + 2,
                            !.class[path] = class]

\* send.send(Some((path, filestat))); class is what keep_status has made of
\* the path.
Send(path, class) ==
    /\ chan' = Append(chan, Some(path, src[path]))
    /\ hist' = [hist EXCEPT !.sent = @ \cup {path}, !.sends[path] = @ + 1,
                            !.class[path] = class]

\* What the lister makes of the answer of keep_status.
Class(k_s) ==
    IF k_s = FILE_NOT_A_FILE \/ k_s = FILE_TOO_OLD THEN "never"
    ELSE IF k_s = FILE_TOO_YOUNG THEN "young"
    ELSE IF k_s = SRC_FILE_NOT_CHANGED THEN "unchanged"
    ELSE "eligible"

\* One turn of "for (path, filestatus) in list.iter()": keep_status, and what
\* is done with its answer.
ListerKeepStatus ==
    /\ phase = "LISTING"
    /\ lister.pc = "keep_status"
    /\ lister.list # <<>>
    /\ LET path == Head(lister.list)
           k_s == keep_status(cli, path, src[path], set, now)
           rest == [lister EXCEPT !.list = Tail(lister.list)]
       IN
       IF k_s = FILE_NOT_A_FILE \/ k_s = FILE_TOO_OLD
       THEN /\ lister' = [rest EXCEPT !.with_stat_list = Append(@, path)]
            /\ hist' = [hist EXCEPT !.class[path] = Class(k_s)]
            /\ UNCHANGED chan
       ELSE IF k_s = FILE_TOO_YOUNG \/ k_s = SRC_FILE_NOT_CHANGED \/ cli.dry_run
       THEN /\ lister' = rest
            /\ hist' = [hist EXCEPT !.class[path] = Class(k_s)]
            /\ UNCHANGED chan
       ELSE IF ~cli.disable_queue_as_found
       THEN /\ lister' = rest
            /\ Send(path, Class(k_s))
       ELSE /\ lister' = [rest EXCEPT !.xfer_list = Append(@, path)]
            /\ hist' = [hist EXCEPT !.class[path] = Class(k_s)]
            /\ UNCHANGED chan
    /\ UNCHANGED <<aside, now, snap, wal, set, walOpen, src, dst, phase, exit,
                   sentinels, workers>>

\* After the loop: with disable_queue_as_found, xfer_list is popped and sent,
\* one item a step.
ListerQueueAll ==
    /\ phase = "LISTING"
    /\ lister.pc = "keep_status"
    /\ lister.list = <<>>
    /\ IF cli.disable_queue_as_found /\ lister.xfer_list # <<>>
       THEN LET n == Len(lister.xfer_list) IN
            /\ lister' = [lister EXCEPT !.xfer_list = SubSeq(@, 1, n - 1)]
            /\ Send(lister.xfer_list[n], "eligible")
       ELSE /\ lister' = [lister EXCEPT !.pc = "add_all"]
            /\ UNCHANGED <<chan, hist>>
    /\ UNCHANGED <<aside, now, snap, wal, set, walOpen, src, dst, phase, exit,
                   sentinels, workers>>

\* With add_all_to_tracker, with_stat_list is popped into the tracker by
\* insert_path_and_status, one item a step; then the lister returns Ok.
ListerAddAll ==
    /\ phase = "LISTING"
    /\ lister.pc = "add_all"
    /\ IF cli.add_all_to_tracker /\ lister.with_stat_list # <<>>
       THEN LET n == Len(lister.with_stat_list)
                path == lister.with_stat_list[n]
            IN
            /\ lister' = [lister EXCEPT !.with_stat_list = SubSeq(@, 1, n - 1)]
            /\ set' = SetInsert(set, from_sftp_entry(path, src[path]))
            /\ hist' = [hist EXCEPT !.inserted = @ \cup {path}]
       ELSE /\ lister' = [lister EXCEPT !.pc = "ok"]
            /\ UNCHANGED <<set, hist>>
    /\ UNCHANGED <<aside, now, snap, wal, walOpen, src, dst, phase, exit,
                   sentinels, chan, workers>>

\* ------------------------------------ the run: xferring_inn and xfer_file

Running == phase \in {"LISTING", "DRAINING", "COMMITTING"}

\* What a step of a worker leaves alone (besides dst, set, wal, chan, hist).
WorkerKeeps ==
    UNCHANGED <<aside, now, snap, walOpen, src, phase, exit, sentinels, lister>>

\* recv_c.recv(): None ends the worker with Ok, an item is taken up.
WorkerRecv(w) ==
    /\ Running
    /\ workers[w].pc = "recv"
    /\ chan # <<>>
    /\ chan' = Tail(chan)
    /\ LET p == Head(chan) IN
       IF p = Sentinel
       THEN /\ workers' = [workers EXCEPT ![w].pc = "done"]
            /\ UNCHANGED hist
       ELSE /\ workers' = [workers EXCEPT ![w] =
                              [pc |-> "stat", path |-> p.path, filestat |-> p.filestat]]
            /\ hist' = [hist EXCEPT !.recvd[p.path] = @ + 1]
    /\ WorkerKeeps
    /\ UNCHANGED <<dst, set, wal>>

\* xfer_file up to the create: dst.stat(&dst_path), where with
\* disable_overwrite a file that is there is not copied and xfer_file returns
\* Ok((0, 0)) (an error of stat counts as "not there"), and src.open(&path)?,
\* whose error ends the worker.
WorkerOpen(w) ==
    /\ Running
    /\ workers[w].pc = "stat"
    /\ \E to \in (IF dst[workers[w].path] # NoDst /\ cli.disable_overwrite
                  THEN {"xferred", "create", "dead"} ELSE {"create", "dead"}) :
          /\ workers' = [workers EXCEPT ![w].pc = to]
          /\ hist' = IF to = "xferred"
                     THEN [hist EXCEPT !.skipped = @ \cup {workers[w].path}]
                     ELSE hist
    /\ WorkerKeeps
    /\ UNCHANGED <<dst, set, wal, chan>>

\* dst.create(&tmp_path)?: the file at the temporary path is created, or
\* truncated when there is one.
WorkerCreate(w) ==
    /\ Running
    /\ workers[w].pc = "create"
    /\ \/ /\ dst' = [dst EXCEPT ![TmpName(workers[w].path)] =
                        DstFile(workers[w].path, FALSE, w)]
          /\ workers' = [workers EXCEPT ![w].pc = "copy"]
       \/ /\ workers' = [workers EXCEPT ![w].pc = "dead"]
          /\ UNCHANGED dst
    /\ WorkerKeeps
    /\ UNCHANGED <<set, wal, chan, hist>>

\* The file the worker has open is closed, with all of the source's bytes in
\* it or not.  When the name was given to another file meanwhile (a rename
\* over it), the bytes went to a file that has no name any more.
Closed(w, full) ==
    LET t == TmpName(workers[w].path) IN
    IF dst[t].by = w THEN [dst EXCEPT ![t] = DstFile(workers[w].path, full, 0)] ELSE dst

\* The copy and the end of its block, where the handles are dropped.
\*   std::io::copy into a BufWriter (no threaded_copy): Ok with every byte in
\*     the file; Err after a part; or Ok with the last buffer still in the
\*     BufWriter, whose drop writes it and ignores a failure.
\*   copier::copier (threaded_copy): Ok with every byte written, or Err; or,
\*     after a read or a write that failed, no return at all: the thread of
\*     copier that is left waits on its queue, the join waits for it, and
\*     the file stays open.
WorkerCopy(w) ==
    /\ Running
    /\ workers[w].pc = "copy"
    /\ \/ /\ dst' = Closed(w, TRUE)
          /\ workers' = [workers EXCEPT ![w].pc = "rename"]
       \/ /\ dst' = Closed(w, FALSE)
          /\ workers' = [workers EXCEPT ![w].pc = "dead"]
       \/ /\ ~cli.threaded_copy
          /\ dst' = Closed(w, FALSE)
          /\ workers' = [workers EXCEPT ![w].pc = "rename"]
       \/ /\ cli.threaded_copy
          /\ workers' = [workers EXCEPT ![w].pc = "hung"]
          /\ UNCHANGED dst
    /\ WorkerKeeps
    /\ UNCHANGED <<set, wal, chan, hist>>

\* dst.rename(&tmp_path, &dst_path): an error is logged, and xfer_file
\* returns Ok((1, size)) either way.
WorkerRename(w) ==
    /\ Running
    /\ workers[w].pc = "rename"
    /\ LET path == workers[w].path
           t == TmpName(path)
       IN
       \/ /\ dst[t] # NoDst
          /\ dst' = [dst EXCEPT ![path] = dst[t], ![t] = NoDst]
       \/ UNCHANGED dst
    /\ workers' = [workers EXCEPT ![w].pc = "xferred"]
    /\ WorkerKeeps
    /\ UNCHANGED <<set, wal, chan, hist>>

\* tracker.write().unwrap().xferred(&path, filestat)?: Ok, and the worker
\* goes back to recv; or Err (the flush of the WAL failed, the set is
\* updated by then), which ends the worker.  On a tracker that commit has
\* closed, xferred panics.
WorkerXferred(w) ==
    /\ Running
    /\ workers[w].pc = "xferred"
    /\ LET track == from_sftp_entry(workers[w].path, workers[w].filestat) IN
       IF ~walOpen
       THEN /\ workers' = [workers EXCEPT ![w].pc = "dead"]
            /\ UNCHANGED <<set, wal, hist>>
       ELSE /\ set' = SetReplace(set, track)
            /\ \/ /\ wal' = FileOf(wal.lines \o <<TrackWrite(track)>>)
                  /\ workers' = [workers EXCEPT ![w] = [IdleWorker EXCEPT !.pc = "recv"]]
                  /\ hist' = [hist EXCEPT !.recorded = @ \cup {workers[w].path}]
               \/ /\ UNCHANGED <<wal, hist>>
                  /\ workers' = [workers EXCEPT ![w].pc = "dead"]
    /\ WorkerKeeps
    /\ UNCHANGED <<dst, chan>>

\* ------------------------------------------ the run: the end of run()

\* h_lister_thread.join().unwrap()?: the lister's error is run's error.
RunJoinLister ==
    /\ phase = "LISTING"
    /\ \/ /\ lister.pc = "ok"
          /\ phase' = "DRAINING"
          /\ UNCHANGED <<set, walOpen, exit, sentinels, lister, chan, workers>>
          /\ UNCHANGED hist
       \/ /\ lister.pc = "err"
          /\ RunEnds(1)
    /\ UNCHANGED <<aside, now, snap, wal, src, dst>>

\* "for _ in &xfer_threads { send.send(None)?; }", one send a step.
RunSendSentinel ==
    /\ phase = "DRAINING"
    /\ sentinels < Threads
    /\ sentinels' = sentinels + 1
    /\ chan' = Append(chan, Sentinel)
    /\ UNCHANGED <<aside, now, snap, wal, set, walOpen, src, dst, phase, exit,
                   lister, workers, hist>>

\* "for h in xfer_threads { h.join() }"
RunJoinWorkers ==
    /\ phase = "DRAINING"
    /\ sentinels = Threads
    /\ AllJoined
    /\ phase' = "COMMITTING"
    /\ UNCHANGED <<aside, now, snap, wal, set, walOpen, src, dst, exit, sentinels,
                   lister, chan, workers, hist>>

\* tracker.write().unwrap().commit()?, and run returns: commit returned Ok,
\* with what write_entries left as the snapshot and the WAL removed; or
\* write_entries failed; or remove_file failed after it.
RunCommit ==
    /\ phase = "COMMITTING"
    /\ \/ /\ \E ls \in Written(set) : snap' = FileOf(ls)
          /\ wal' = NoFile
          /\ RunEnds(0)
       \/ /\ UNCHANGED <<snap, wal>>
          /\ RunEnds(1)
       \/ /\ \E ls \in Written(set) : snap' = FileOf(ls)
          /\ UNCHANGED wal
          /\ RunEnds(1)
    /\ UNCHANGED <<aside, now, src, dst>>

\* The process is killed; the files it had open are closed as they are.
RunKill ==
    /\ ~Stopped
    /\ RunEnds(2)
    /\ dst' = [n \in DstNames |-> [dst[n] EXCEPT !.by = 0]]
    /\ UNCHANGED <<aside, now, snap, wal, src>>

\* Between two runs time passes; the source stays as it is.
Between == phase = "DONE" /\ hist.runs < MaxRuns

RunTick ==
    /\ Between
    /\ now < MaxTime
    /\ now' = now + 1
    /\ UNCHANGED <<aside, snap, wal, set, walOpen, rvars>>

\* ------------------------------------------- the run: one run of main

NextRun ==
    \/ RunStart
    \/ RunInit
    \/ ListerOpenDir
    \/ ListerKeepPath
    \/ ListerKeepStatus
    \/ ListerQueueAll
    \/ ListerAddAll
    \/ \E w \in 1..Threads : WorkerRecv(w)
    \/ \E w \in 1..Threads : WorkerOpen(w)
    \/ \E w \in 1..Threads : WorkerCreate(w)
    \/ \E w \in 1..Threads : WorkerCopy(w)
    \/ \E w \in 1..Threads : WorkerRename(w)
    \/ \E w \in 1..Threads : WorkerXferred(w)
    \/ RunJoinLister
    \/ RunSendSentinel
    \/ RunJoinWorkers
    \/ RunCommit
    \/ RunKill

SpecRun == InitRun /\ [][NextRun]_vars

\* The steps of the thread of run, of the lister thread, of a worker thread.
RunStep ==
    \/ RunStart
    \/ RunInit
    \/ RunJoinLister
    \/ RunSendSentinel
    \/ RunJoinWorkers
    \/ RunCommit
ListerStep ==
    \/ ListerOpenDir
    \/ ListerKeepPath
    \/ ListerKeepStatus
    \/ ListerQueueAll
    \/ ListerAddAll
WorkerStep(w) ==
    \/ WorkerRecv(w)
    \/ WorkerOpen(w)
    \/ WorkerCreate(w)
    \/ WorkerCopy(w)
    \/ WorkerRename(w)
    \/ WorkerXferred(w)

\* A first run at time 1: no snapshot of an earlier run.
InitFirstRun ==
    /\ InitRun
    /\ now = 1
    /\ max_track_age = Unbounded
    /\ snap = NoFile

\* Every thread that can take a step takes one in the end; nobody has to
\* kill the process.
FairSpecRun ==
    /\ InitFirstRun
    /\ [][NextRun]_vars
    /\ WF_vars(RunStep)
    /\ WF_vars(ListerStep)
    /\ \A w \in 1..Threads : WF_vars(WorkerStep(w))

\* ---------------------------------------- the run: one run after another

\* The first run starts at time 1 with no snapshot, every file of the
\* source a regular file, and a configuration that differs from the
\* defaults in its ages only.
InitRuns ==
    /\ InitRun
    /\ now = 1
    /\ snap = NoFile
    /\ src["a"] = Regular(1)
    /\ \A f \in CliFields \ {"max_age", "min_age"} : cli[f] = BaseCli[f]

\* The program is started again.
Rerun ==
    /\ phase = "DONE"
    /\ hist.runs < MaxRuns
    /\ phase' = "INIT"
    /\ exit' = 0
    /\ hist' = [hist EXCEPT !.runs = @ + 1]
    /\ UNCHANGED <<aside, now, snap, wal, set, walOpen, src, dst, sentinels,
                   lister, chan, workers>>

\* xfer_file(path) run from its first line to its return with no step of
\* another worker in between: whether it returned Ok, and the destination
\* it leaves.
XferFile(path) ==
    LET t == TmpName(path)
        Left(full) == [dst EXCEPT ![t] = DstFile(path, full, 0)]
        Renamed(full) == [dst EXCEPT ![path] = DstFile(path, full, 0), ![t] = NoDst]
        Ret(ok, skip, d) == [ok |-> ok, skip |-> skip, dst |-> d]
    IN
    (IF dst[path] # NoDst /\ cli.disable_overwrite
     THEN {Ret(TRUE, TRUE, dst)} ELSE {})
    \cup {Ret(FALSE, FALSE, dst), Ret(FALSE, FALSE, Left(FALSE)),
          Ret(TRUE, FALSE, Renamed(TRUE)), Ret(TRUE, FALSE, Left(TRUE))}
    \cup (IF ~cli.threaded_copy
          THEN {Ret(TRUE, FALSE, Renamed(FALSE)), Ret(TRUE, FALSE, Left(FALSE))}
          ELSE {})

\* One turn of the loop of xferring_inn: recv, xfer_file(..)?, xferred(..)?.
Xferring(w) ==
    /\ Running
    /\ workers[w].pc = "recv"
    /\ chan # <<>>
    /\ chan' = Tail(chan)
    /\ LET p == Head(chan)
           track == from_sftp_entry(p.path, p.filestat)
       IN
       IF p = Sentinel
       THEN /\ workers' = [workers EXCEPT ![w].pc = "done"]
            /\ UNCHANGED <<dst, set, wal, hist>>
       ELSE \E r \in XferFile(p.path) :
               LET got == [hist EXCEPT !.recvd[p.path] = @ + 1,
                                       !.skipped = IF r.skip THEN @ \cup {p.path} ELSE @]
               IN
               /\ dst' = r.dst
               /\ IF ~r.ok \/ ~walOpen
                  THEN /\ workers' = [workers EXCEPT ![w].pc = "dead"]
                       /\ hist' = got
                       /\ UNCHANGED <<set, wal>>
                  ELSE /\ set' = SetReplace(set, track)
                       /\ \/ /\ wal' = FileOf(wal.lines \o <<TrackWrite(track)>>)
                             /\ hist' = [got EXCEPT !.recorded = @ \cup {p.path}]
                             /\ UNCHANGED workers
                          \/ /\ hist' = got
                             /\ UNCHANGED wal
                             /\ workers' = [workers EXCEPT ![w].pc = "dead"]
    /\ WorkerKeeps

NextRuns ==
    \/ RunStart
    \/ Rerun
    \/ RunInit
    \/ ListerOpenDir
    \/ ListerKeepPath
    \/ ListerKeepStatus
    \/ ListerQueueAll
    \/ ListerAddAll
    \/ \E w \in 1..Threads : Xferring(w)
    \/ RunJoinLister
    \/ RunSendSentinel
    \/ RunJoinWorkers
    \/ RunCommit
    \/ RunKill
    \/ RunTick

SpecRuns == InitRuns /\ [][NextRuns]_vars

\* ------------------------------------------------- copier::copier (copier.rs)

\* The source is MaxLen bytes long at most, the ring has MaxRing buffers at
\* most, a buffer MaxBuf bytes at most.
MaxLen == 3
MaxRing == 2
MaxBuf == 2

\* The bytes of a source of length len: byte i is the number i.
Source(len) == [i \in 1..len |-> i]

\* vec![0u8; buff_size], the b-th buffer of the ring.
Buffer(b, size) == [id |-> b, data |-> [i \in 1..size |-> 0]]

\* "for _ in 0..buff_ring_size { _w_send.send(Some(vec![0u8; buff_size])) }"
Prime(ring, size) == [b \in 1..ring |-> Buffer(b, size)]

\* reader.read(&mut buf[..]) that returned n: the next n bytes of the source
\* are at the start of the buffer, the rest of the buffer is as it was.
ReadInto(data, pos, n) == [i \in 1..Len(data) |-> IF i <= n THEN pos + i ELSE data[i]]

\* The lengths read can return at position pos: 0 at the end of the source
\* and for a buffer of no bytes, else anything from one byte to a full
\* buffer (a short read).
ReadLens(len, pos, size) ==
    IF pos = len \/ size = 0 THEN {0}
    ELSE 1..(IF len - pos < size THEN len - pos ELSE size)

\* A write that puts the whole buffer out, whatever read has filled.
WriteWhole(out, data, n) == out \o data

\* writer.write_all(&buf[..len])
WriteAll(out, data, n) == out \o SubSeq(data, 1, n)

\* A recycle that hands the buffer back twice.
RecycleTwice(empty, buf) == Append(Append(empty, buf), buf)

\* w_send.send(Some(buf))
Recycle(empty, buf) == Append(empty, buf)

\* What the filled queue carries: Some((len, buf)) or None.
SomeBuf(n, buf) == [some |-> TRUE, n |-> n, buf |-> buf]
NoneBuf == [some |-> FALSE, n |-> 0, buf |-> Buffer(0, 0)]

Ok(n) == [kind |-> "ok", n |-> n]
Err == [kind |-> "err", n |-> 0]

\* copier is called on a source of len bytes with a ring of ring buffers of
\* size bytes.
CopierCalled(len, ring, size) ==
    [IdleCopier EXCEPT !.pc = "call", !.len = len, !.ring = ring, !.size = size]

InitCopier ==
    /\ TrackerAtRest
    /\ RunAtRest
    /\ call = NoCall
    /\ pool = IdlePool
    /\ SidesIdle
    /\ \E len \in 0..MaxLen, ring \in 1..MaxRing, size \in 1..MaxBuf :
          cp = CopierCalled(len, ring, size)

CopierKeeps ==
    UNCHANGED <<now, max_track_age, snap, tmp, wal, pc, op, set, walOpen, walBuf, todo,
                tmpBuf, ret, acked, last, owed, cli, src, dst, phase, exit, sentinels,
                lister, chan, workers, hist, call, pool, svars>>

\* The two channels, the priming of the ring and the spawn of the two
\* threads.
CopierPrime ==
    /\ cp.pc = "call"
    /\ cp' = [cp EXCEPT !.pc = "join",
                        !.empty = Prime(cp.ring, cp.size),
                        !.reader = [IdleThread EXCEPT !.pc = "recv"],
                        !.writer = [IdleThread EXCEPT !.pc = "recv"]]
    /\ CopierKeeps

\* The reader thread, r_recv.recv(): it waits for an empty buffer.  copier
\* keeps a sender of the queue, so the queue is never disconnected.
ReaderRecv ==
    /\ cp.reader.pc = "recv"
    /\ cp.empty # <<>>
    /\ cp' = [cp EXCEPT !.empty = Tail(cp.empty),
                        !.reader.pc = "read",
                        !.reader.held = <<Head(cp.empty)>>]
    /\ CopierKeeps

\* The reader thread, reader.read(&mut buf[..]) and the send of what was
\* read: None at the end of the source, and the thread returns its count;
\* a read that fails panics the thread (expect).
ReaderRead ==
    /\ cp.reader.pc = "read"
    /\ LET buf == cp.reader.held[1] IN
       \/ \E n \in ReadLens(cp.len, cp.pos, cp.size) :
             IF n = 0
             THEN cp' = [cp EXCEPT !.filled = Append(@, NoneBuf),
                                   !.reader.pc = "done",
                                   !.reader.held = <<>>]
             ELSE cp' = [cp EXCEPT
                           !.filled = Append(@, SomeBuf(n,
                               [buf EXCEPT !.data = ReadInto(buf.data, cp.pos, n)])),
                           !.pos = @ + n,
                           !.short = @ \/ (n < cp.size /\ n < cp.len - cp.pos),
                           !.reader.n = @ + n,
                           !.reader.pc = "recv",
                           !.reader.held = <<>>]
       \/ cp' = [cp EXCEPT !.reader.pc = "panic", !.reader.held = <<>>]
    /\ CopierKeeps

\* The writer thread, w_recv.recv(): it waits for a filled buffer; None ends
\* it.  copier keeps a sender of this queue too.
WriterRecv ==
    /\ cp.writer.pc = "recv"
    /\ cp.filled # <<>>
    /\ LET item == Head(cp.filled) IN
       IF ~item.some \/ item.n = 0
       THEN cp' = [cp EXCEPT !.filled = Tail(cp.filled), !.writer.pc = "done"]
       ELSE cp' = [cp EXCEPT !.filled = Tail(cp.filled),
                             !.writer.pc = "write",
                             !.writer.n = item.n,
                             !.writer.held = <<item.buf>>]
    /\ CopierKeeps

\* The writer thread, writer.write_all(&buf[..len]) and the send of the
\* buffer back to the reader; a write that fails, after some of the bytes
\* or none, panics the thread (expect).
WriterWrite ==
    /\ cp.writer.pc = "write"
    /\ LET buf == cp.writer.held[1] IN
       \/ cp' = [cp EXCEPT !.out = WriteAll(cp.out, buf.data, cp.writer.n),
                           !.empty = Recycle(cp.empty, buf),
                           !.writer.pc = "recv",
                           !.writer.n = 0,
                           !.writer.held = <<>>]
       \/ \E k \in 0..(cp.writer.n - 1) :
             cp' = [cp EXCEPT !.out = WriteAll(cp.out, buf.data, k),
                              !.writer.pc = "panic",
                              !.writer.n = 0,
                              !.writer.held = <<>>]
    /\ CopierKeeps

\* match (l_reader.join(), l_writer.join()): both threads have ended; Ok
\* with what the reader counted when neither has panicked.
CopierJoin ==
    /\ cp.pc = "join"
    /\ cp.reader.pc \in {"done", "panic"}
    /\ cp.writer.pc \in {"done", "panic"}
    /\ cp' = [cp EXCEPT !.pc = "returned",
                        !.ret = IF cp.reader.pc = "done" /\ cp.writer.pc = "done"
                                THEN Ok(cp.reader.n) ELSE Err]
    /\ CopierKeeps

NextCopier ==
    \/ CopierPrime
    \/ ReaderRecv
    \/ ReaderRead
    \/ WriterRecv
    \/ WriterWrite
    \/ CopierJoin

SpecCopier == InitCopier /\ [][NextCopier]_vars

\* The sizes the command line takes: buffer_ring_size and copy_buffer_size
\* are any usize, 0 too.
InitCopierAny ==
    /\ TrackerAtRest
    /\ RunAtRest
    /\ call = NoCall
    /\ pool = IdlePool
    /\ SidesIdle
    /\ \E len \in 0..MaxLen, ring \in 0..MaxRing, size \in 0..MaxBuf :
          cp = CopierCalled(len, ring, size)

SpecCopierAny == InitCopierAny /\ [][NextCopier]_vars

\* Every thread that can take a step takes one in the end.
FairSpecCopier ==
    /\ SpecCopier
    /\ WF_vars(CopierPrime)
    /\ WF_vars(ReaderRecv)
    /\ WF_vars(ReaderRead)
    /\ WF_vars(WriterRecv)
    /\ WF_vars(WriterWrite)
    /\ WF_vars(CopierJoin)

\* ------------------------------------- fast_stat::get_stats_fast (fast_stat.rs)

\* get_stats_fast runs MaxPool threads at most.
MaxPool == 2

\* What the channel of the pool carries: Some(path) or None.
SomePath(path) == [some |-> TRUE, path |-> path]
NonePath == [some |-> FALSE, path |-> ""]

\* A thread of the pool: where it is, and the path it has received.
PoolThread(at, path) == [pc |-> at, path |-> path]

\* get_stats_fast is called with no_threads threads on a list of paths; given
\* remembers the paths of the list, which the call empties.
PoolCalled(no_threads, list) ==
    [IdlePool EXCEPT !.pc = "call", !.no_threads = no_threads, !.list = list,
                     !.given = Range(list)]

\* The list holds distinct paths of the source directory, in any order; a
\* path whose file is gone since the listing has no entry, and its stat
\* fails.
InitPool ==
    /\ TrackerAtRest
    /\ cli = BaseCli
    /\ src \in [SrcNames -> {NoEntry, Regular(1), Directory}]
    /\ dst = [n \in DstNames |-> NoDst]
    /\ phase = "down"
    /\ exit = 0
    /\ sentinels = 0
    /\ lister = IdleLister
    /\ chan = <<>>
    /\ workers = [w \in 1..Threads |-> IdleWorker]
    /\ hist = NoHist
    /\ call = NoCall
    /\ cp = IdleCopier
    /\ SidesIdle
    /\ \E no_threads \in 1..MaxPool, S \in SUBSET SrcNames : \E list \in Orders(S) :
          pool = PoolCalled(no_threads, list)

PoolKeeps ==
    UNCHANGED <<now, max_track_age, snap, tmp, wal, pc, op, set, walOpen, walBuf, todo,
                tmpBuf, ret, acked, last, owed, cli, src, dst, phase, exit, sentinels,
                lister, chan, workers, hist, call, cp, svars>>

\* "for t in 0..no_threads { ... spawn(move || get_stats(&r_c, &mut res_c)) }"
PoolSpawn ==
    /\ pool.pc = "call"
    /\ pool' = [pool EXCEPT !.pc = "send",
                            !.threads = [t \in 1..pool.no_threads |-> PoolThread("recv", "")]]
    /\ PoolKeeps

\* "match list.pop() { Some(p) => s.send(Some(p))? }": the last path of the
\* list goes first.  get_stats_fast holds a receiver, the send never fails.
PoolSend ==
    /\ pool.pc = "send"
    /\ pool.list # <<>>
    /\ pool' = [pool EXCEPT !.list = SubSeq(@, 1, Len(@) - 1),
                            !.chan = Append(@, SomePath(pool.list[Len(pool.list)]))]
    /\ PoolKeeps

\* "for t in 0..no_threads { s.send(None)? }"
PoolSendNone ==
    /\ pool.pc = "send"
    /\ pool.list = <<>>
    /\ pool.nones < pool.no_threads
    /\ pool' = [pool EXCEPT !.chan = Append(@, NonePath), !.nones = @ + 1]
    /\ PoolKeeps

\* __get_stats, recv.recv(): None ends the thread.
StatRecv(t) ==
    /\ pool.pc = "send"
    /\ pool.threads[t].pc = "recv"
    /\ pool.chan # <<>>
    /\ pool' = [pool EXCEPT !.chan = Tail(@),
                            !.threads[t] = IF Head(pool.chan).some
                                           THEN PoolThread("stat", Head(pool.chan).path)
                                           ELSE PoolThread("done", "")]
    /\ PoolKeeps

\* __get_stats, std::fs::metadata(&path)? and the push of (path, fs) under
\* the lock: an error of metadata returns from __get_stats, get_stats logs
\* it and the thread ends.
StatPush(t) ==
    /\ pool.pc = "send"
    /\ pool.threads[t].pc = "stat"
    /\ LET path == pool.threads[t].path IN
       IF src[path] = NoEntry
       THEN pool' = [pool EXCEPT !.threads[t] = PoolThread("done", "")]
       ELSE pool' = [pool EXCEPT !.results = Append(@, Some(path, src[path])),
                                 !.threads[t] = PoolThread("recv", "")]
    /\ PoolKeeps

\* "for h in vec_h { h.join().unwrap() }" and the return of the results.
PoolJoin ==
    /\ pool.pc = "send"
    /\ pool.list = <<>>
    /\ pool.nones = pool.no_threads
    /\ \A t \in 1..pool.no_threads : pool.threads[t].pc = "done"
    /\ pool' = [pool EXCEPT !.pc = "returned", !.ret = pool.results]
    /\ PoolKeeps

NextPool ==
    \/ PoolSpawn
    \/ PoolSend
    \/ PoolSendNone
    \/ \E t \in 1..MaxPool : t <= pool.no_threads /\ StatRecv(t)
    \/ \E t \in 1..MaxPool : t <= pool.no_threads /\ StatPush(t)
    \/ PoolJoin

SpecPool == InitPool /\ [][NextPool]_vars

\* ------------------------------------ keep_path and keep_status (main.rs)

\* The options of the filters: everything keep_path and keep_status read.  A
\* regular expression is the set of the names it matches: all, "a" alone.
FilterClis ==
    {c \in [disable_overwrite      : BOOLEAN,
            include_dot_files      : BOOLEAN,
            add_all_to_tracker     : {FALSE},
            threaded_copy          : {FALSE},
            dry_run                : {FALSE},
            disable_queue_as_found : {FALSE},
            max_age                : {0, MaxTime},
            min_age                : {0, 1},
            re                     : {SrcNames \cup NoFileName, {"a"}}] : TRUE}

\* What a listing can say of an entry: a file or a directory, modified
\* before now, now or after now, of one size or another.
FileStats == [file_type : {"Regular", "Directory"}, mtime : 0..MaxTime, size : 1..2]

\* What the tracker can hold of "a": nothing, or one record.
Tracked == {{}} \cup {{[src_path |-> "a", lastmod |-> m, size |-> z]} : m \in 0..MaxTime, z \in 1..2}

InitFilter ==
    /\ now \in 1..MaxTime
    /\ max_track_age = Unbounded
    /\ snap = NoFile
    /\ tmp = NoFile
    /\ wal = NoFile
    /\ pc = "down"
    /\ op = "none"
    /\ set \in Tracked
    /\ walOpen = FALSE
    /\ walBuf = <<>>
    /\ todo = {}
    /\ tmpBuf = <<>>
    /\ ret = "none"
    /\ acked = NoAcks
    /\ last = NoAcks
    /\ owed = {}
    /\ cli \in FilterClis
    /\ \E filestat \in FileStats :
          src = [n \in SrcNames |-> IF n = "a" THEN filestat ELSE NoEntry]
    /\ dst = [n \in DstNames |-> NoDst]
    /\ phase = "down"
    /\ exit = 0
    /\ sentinels = 0
    /\ lister = IdleLister
    /\ chan = <<>>
    /\ workers = [w \in 1..Threads |-> IdleWorker]
    /\ hist = NoHist
    /\ ProceduresIdle

FilterKeeps ==
    UNCHANGED <<now, max_track_age, snap, tmp, wal, pc, op, set, walOpen, walBuf, todo,
                tmpBuf, ret, acked, last, owed, cli, src, dst, phase, exit, sentinels,
                lister, chan, workers, hist, cp, pool, svars>>

\* keep_path(cli, path, tracker) is called and returns.
KeepPath(path) ==
    /\ call = NoCall
    /\ call' = [op |-> "keep_path", path |-> path, ret |-> keep_path(cli, path, set)]
    /\ FilterKeeps

\* keep_status(cli, path, filestatus, tracker) is called and returns.
KeepStatus(path) ==
    /\ call = NoCall
    /\ src[path] # NoEntry
    /\ call' = [op |-> "keep_status", path |-> path,
                ret |-> keep_status(cli, path, src[path], set, now)]
    /\ FilterKeeps

NextFilter ==
    \/ \E path \in SrcNames \cup NoFileName : KeepPath(path)
    \/ \E path \in SrcNames : KeepStatus(path)

SpecFilter == InitFilter /\ [][NextFilter]_vars

\* --------------------------------------------------- the start of run
\*
\* run from the release of the permits to the spawn of the lister, and
\* xferring_inn up to its loop.  Thread 0 is run, threads 1..Threads are the
\* transfer workers.  A Vfs::new is two steps, its start and its return, so
\* that the threads that are inside one can be counted.

MaxStartups == 2

\* Semaphore::release: one more permit.
SemaRelease(st) == [st EXCEPT !.permits = @ + 1, !.released = @ + 1]
\* Semaphore::access: takes a permit, waiting for one; the guard it returns
\* is held by thread t.
SemaAccess(st, t) == [st EXCEPT !.permits = @ - 1, !.held = @ \cup {t}]
\* The drop of the guard gives the permit back.
SemaDrop(st, t) == [st EXCEPT !.permits = @ + 1, !.held = @ \ {t}]

\* run is called with number_of_ssh_startups = n and the urls of which the
\* ones in sftp have the scheme sftp, the others the scheme file.
StartupCalled(n, sftp) ==
    [IdleStartup EXCEPT !.pc = "run", !.number_of_ssh_startups = n, !.sftp = sftp,
                        !.run = "release"]

InitStartup ==
    /\ TrackerAtRest
    /\ RunAtRest
    /\ call = NoCall
    /\ cp = IdleCopier
    /\ pool = IdlePool
    /\ rw = IdleRw
    /\ totals = IdleTotals
    /\ \E n \in 0..MaxStartups, sftp \in SUBSET {"src", "dst"} :
          startup = StartupCalled(n, sftp)

StartupKeeps ==
    UNCHANGED <<now, max_track_age, snap, tmp, wal, pc, op, set, walOpen, walBuf, todo,
                tmpBuf, ret, acked, last, owed, cli, src, dst, phase, exit, sentinels,
                lister, chan, workers, hist, call, cp, pool, rw, totals>>

\* A Vfs::new can fail when its url is an sftp url; for a file url it
\* returns Ok at once.
VfsNewResults(st, url) == IF url \in st.sftp THEN {"ok", "err"} ELSE {"ok"}

\* for _ in 0..cli.number_of_ssh_startups { SSH_SEMA.release(); }
StartupRelease ==
    /\ startup.run = "release"
    /\ startup' = IF startup.released < startup.number_of_ssh_startups
                  THEN SemaRelease(startup)
                  ELSE [startup EXCEPT !.run = "src"]
    /\ StartupKeeps

\* run calls Vfs::new for the source, then for the destination.
StartupRunEnter(url) ==
    /\ startup.run = url
    /\ startup' = [startup EXCEPT !.run = "in_" \o url]
    /\ StartupKeeps

\* The Vfs::new of run returns: with Err, run returns the error.
StartupRunLeave(url) ==
    /\ startup.run = "in_" \o url
    /\ \E r \in VfsNewResults(startup, url) :
          startup' = [startup EXCEPT !.run = IF r = "err" THEN "err"
                                             ELSE IF url = "src" THEN "dst" ELSE "tracker"]
    /\ StartupKeeps

\* Tracker::new(..)?, the channel and the spawn of the transfer workers;
\* run goes on to the lister.
StartupSpawn ==
    /\ startup.run = "tracker"
    /\ \/ startup' = [startup EXCEPT
                         !.run = "listing",
                         !.xfer = [w \in 1..Threads |-> [pc |-> "access", tries |-> 0]]]
       \/ startup' = [startup EXCEPT !.run = "err"]
    /\ StartupKeeps

\* let _l = SSH_SEMA.access(); and the start of the worker's first Vfs::new.
StartupAccess(w) ==
    /\ startup.xfer[w].pc = "access"
    /\ startup.permits > 0
    /\ startup' = [SemaAccess(startup, w) EXCEPT !.xfer[w].pc = "in_src",
                                                 !.xfer[w].tries = @ + 1]
    /\ StartupKeeps

\* The worker's Vfs::new for the source returns: Ok, and the one for the
\* destination starts; or Err, which xferring_inn returns: the guard is
\* dropped and the worker ends.
StartupWorkerSrc(w) ==
    /\ startup.xfer[w].pc = "in_src"
    /\ \E r \in VfsNewResults(startup, "src") :
          startup' = IF r = "ok"
                     THEN [startup EXCEPT !.xfer[w].pc = "in_dst"]
                     ELSE [SemaDrop(startup, w) EXCEPT !.xfer[w].pc = "dead"]
    /\ StartupKeeps

\* The worker's Vfs::new for the destination returns; the guard is dropped
\* at the end of the block, and with Ok the worker goes to its loop.
StartupWorkerDst(w) ==
    /\ startup.xfer[w].pc = "in_dst"
    /\ \E r \in VfsNewResults(startup, "dst") :
          startup' = [SemaDrop(startup, w) EXCEPT
                         !.xfer[w].pc = IF r = "ok" THEN "recv" ELSE "dead"]
    /\ StartupKeeps

NextStartup ==
    \/ StartupRelease
    \/ \E url \in {"src", "dst"} : StartupRunEnter(url)
    \/ \E url \in {"src", "dst"} : StartupRunLeave(url)
    \/ StartupSpawn
    \/ \E w \in 1..Threads : StartupAccess(w)
    \/ \E w \in 1..Threads : StartupWorkerSrc(w)
    \/ \E w \in 1..Threads : StartupWorkerDst(w)

SpecStartup == InitStartup /\ [][NextStartup]_vars

\* The threads that are inside the construction of an sftp session.
InConstruction ==
    {t \in 0..Threads :
        LET at == IF t = 0 THEN startup.run ELSE startup.xfer[t].pc IN
        \/ at = "in_src" /\ "src" \in startup.sftp
        \/ at = "in_dst" /\ "dst" \in startup.sftp}

\* ------------------------------------------------------------ the totals
\*
\* The loop of xferring_inn with its two sums, xferring, and the sum run
\* makes at the join.  The channel holds the items the lister has sent, each
\* the size of its file, and one None for every worker.  placed counts the
\* files whose copy returned Ok and whose rename to the final name returned
\* Ok, and their bytes.

MaxItems == 2
MaxSize == 2

NoneItem == 0

TotalsCalled(items) ==
    [IdleTotals EXCEPT !.pc = "run",
                       !.chan = items \o [w \in 1..Threads |-> NoneItem],
                       !.xfer = [w \in 1..Threads |-> [pc |-> "recv", count |-> 0, size |-> 0]]]

InitTotals ==
    /\ TrackerAtRest
    /\ RunAtRest
    /\ call = NoCall
    /\ cp = IdleCopier
    /\ pool = IdlePool
    /\ startup = IdleStartup
    /\ rw = IdleRw
    /\ \E n \in 0..MaxItems : \E items \in [1..n -> 1..MaxSize] :
          totals = TotalsCalled(items)

TotalsKeeps ==
    UNCHANGED <<now, max_track_age, snap, tmp, wal, pc, op, set, walOpen, walBuf, todo,
                tmpBuf, ret, acked, last, owed, cli, src, dst, phase, exit, sentinels,
                lister, chan, workers, hist, call, cp, pool, startup, rw>>

\* What xfer_file returns for a file of the given size, and whether it has
\* put the file in place: Err; Ok((0, 0)) for a file it skips; Ok((1, size))
\* after a copy, whether the rename returned Ok or Err.
XferFileReturns(size) ==
    {[ok |-> FALSE, c |-> 0, s |-> 0, placed |-> FALSE],
     [ok |-> TRUE, c |-> 0, s |-> 0, placed |-> FALSE],
     [ok |-> TRUE, c |-> 1, s |-> size, placed |-> TRUE],
     [ok |-> TRUE, c |-> 1, s |-> size, placed |-> FALSE]}

\* recv_c.recv() and, for an item, xfer_file(..)? with size += s; count += c.
\* None returns Ok((count, size)).
TotalsRecv(w) ==
    /\ totals.xfer[w].pc = "recv"
    /\ totals.chan # <<>>
    /\ LET p == Head(totals.chan)
           rest == [totals EXCEPT !.chan = Tail(@)]
       IN
       IF p = NoneItem
       THEN totals' = [rest EXCEPT !.xfer[w].pc = "done"]
       ELSE \E r \in XferFileReturns(p) :
               totals' =
                  IF ~r.ok
                  THEN [rest EXCEPT !.xfer[w].pc = "dead"]
                  ELSE [rest EXCEPT
                           !.xfer[w] = [pc |-> "xferred", count |-> @.count + r.c,
                                        size |-> @.size + r.s],
                           !.placed = IF r.placed
                                      THEN [files |-> @.files + 1, bytes |-> @.bytes + p]
                                      ELSE @]
    /\ TotalsKeeps

\* tracker.write().unwrap().xferred(&path, filestat)?
TotalsXferred(w) ==
    /\ totals.xfer[w].pc = "xferred"
    /\ \E to \in {"recv", "dead"} : totals' = [totals EXCEPT !.xfer[w].pc = to]
    /\ TotalsKeeps

\* What xferring returns: the sums of xferring_inn, or (0, 0) for its Err.
XferringReturns(x) ==
    IF x.pc = "done" THEN [c |-> x.count, s |-> x.size] ELSE [c |-> 0, s |-> 0]

\* let (c, s) = h.join().unwrap(); count += c; size += s; for the next
\* worker of xfer_threads.
TotalsJoin ==
    /\ totals.pc = "run"
    /\ LET w == totals.joined + 1
           r == XferringReturns(totals.xfer[w])
       IN
       /\ totals.xfer[w].pc \in {"done", "dead"}
       /\ totals' = [totals EXCEPT !.joined = w,
                                   !.count = @ + r.c,
                                   !.size = @ + r.s,
                                   !.pc = IF w = Threads THEN "joined" ELSE "run"]
    /\ TotalsKeeps

NextTotals ==
    \/ \E w \in 1..Threads : TotalsRecv(w)
    \/ \E w \in 1..Threads : TotalsXferred(w)
    \/ TotalsJoin

SpecTotals == InitTotals /\ [][NextTotals]_vars

\* ------------------------------------------- the lock around the tracker
\*
\* Arc<RwLock<Tracker>>: thread 0 is the lister, which calls
\* path_exists_in_tracker and check under tracker.read(); threads 1..Threads
\* are the transfer workers, which call xferred under tracker.write().
\* The n-th xferred of worker w records the path <<w, n>>.  track.write puts the record into the
\* BufWriter of the WAL in two pieces, set.replace follows, then the flush,
\* which moves what the BufWriter holds to the file, all of it or, with an
\* error, a part of it.

MaxXferred == 2

\* A writer that takes the lock whoever holds it.
LockFree(l) == TRUE
\* RwLock::write returns when no thread holds the lock.
CanWrite(l) == l.writer = 0 /\ l.readers = {}
\* RwLock::read returns when no writer holds the lock.
CanRead(l) == l.writer = 0

\* The k-th piece of the line of the record that worker w is recording.
Piece(w, k) == [of |-> <<w, rw.thr[w].n>>, part |-> k]

InitRw ==
    /\ TrackerAtRest
    /\ RunAtRest
    /\ call = NoCall
    /\ cp = IdleCopier
    /\ pool = IdlePool
    /\ startup = IdleStartup
    /\ totals = IdleTotals
    /\ rw = [IdleRw EXCEPT !.pc = "run"]

RwKeeps ==
    UNCHANGED <<now, max_track_age, snap, tmp, wal, pc, op, set, walOpen, walBuf, todo,
                tmpBuf, ret, acked, last, owed, cli, src, dst, phase, exit, sentinels,
                lister, chan, workers, hist, call, cp, pool, startup, totals>>

\* tracker.read(): the lister takes the lock for a path_exists_in_tracker or
\* a check.
RwRead ==
    /\ rw.pc = "run"
    /\ rw.thr[0].pc = "idle"
    /\ CanRead(rw.lock)
    /\ rw' = [rw EXCEPT !.lock.readers = @ \cup {0}, !.thr[0].pc = "reading"]
    /\ RwKeeps

\* The call returns and the guard of the read is dropped.
RwReadDone ==
    /\ rw.thr[0].pc = "reading"
    /\ rw' = [rw EXCEPT !.lock.readers = @ \ {0}, !.thr[0].pc = "idle"]
    /\ RwKeeps

\* tracker.write(): a worker takes the lock for xferred.
RwWrite(w) ==
    /\ rw.pc = "run"
    /\ rw.thr[w].pc = "idle"
    /\ rw.thr[w].n < MaxXferred
    /\ CanWrite(rw.lock)
    /\ rw' = [rw EXCEPT !.lock.writer = w, !.thr[w] = [pc |-> "write1", n |-> @.n + 1]]
    /\ RwKeeps

\* track.write(self.wal): the first piece of the line, then the second.
RwTrackWrite(w) ==
    /\ rw.thr[w].pc \in {"write1", "write2"}
    /\ rw' = IF rw.thr[w].pc = "write1"
             THEN [rw EXCEPT !.buf = Append(@, Piece(w, 1)), !.thr[w].pc = "write2"]
             ELSE [rw EXCEPT !.buf = Append(@, Piece(w, 2)), !.thr[w].pc = "replace"]
    /\ RwKeeps

\* self.set.replace(track)
RwReplace(w) ==
    /\ rw.thr[w].pc = "replace"
    /\ rw' = [rw EXCEPT !.set = @ \cup {<<w, rw.thr[w].n>>}, !.thr[w].pc = "flush"]
    /\ RwKeeps

\* self.wal.flush(): Ok, with all of the buffer in the file; or Err, with
\* the first k pieces of it in the file and the others still in the buffer.
RwFlush(w) ==
    /\ rw.thr[w].pc = "flush"
    /\ \/ rw' = [rw EXCEPT !.file = @ \o rw.buf, !.buf = <<>>, !.thr[w].pc = "ok"]
       \/ \E k \in 0..(Len(rw.buf) - 1) :
             rw' = [rw EXCEPT !.file = @ \o SubSeq(rw.buf, 1, k),
                              !.buf = SubSeq(rw.buf, k + 1, Len(rw.buf)),
                              !.thr[w].pc = "err"]
    /\ RwKeeps

\* xferred returns and the guard of the write is dropped; after Ok the
\* worker goes on, after Err it ends.
RwWriteDone(w) ==
    /\ rw.thr[w].pc \in {"ok", "err"}
    /\ rw' = [rw EXCEPT !.lock.writer = 0,
                        !.thr[w].pc = IF rw.thr[w].pc = "ok" THEN "idle" ELSE "dead"]
    /\ RwKeeps

NextRw ==
    \/ RwRead
    \/ RwReadDone
    \/ \E w \in 1..Threads : RwWrite(w)
    \/ \E w \in 1..Threads : RwTrackWrite(w)
    \/ \E w \in 1..Threads : RwReplace(w)
    \/ \E w \in 1..Threads : RwFlush(w)
    \/ \E w \in 1..Threads : RwWriteDone(w)

SpecRw == InitRw /\ [][NextRw]_vars

\* The WAL as its readers will find it once the buffer is written: the file
\* and behind it what the BufWriter holds.
WalPieces == rw.file \o rw.buf

\* The workers that are in the middle of an xferred.
InXferred == {w \in 1..Threads : rw.thr[w].pc \in {"write1", "write2", "replace", "flush", "ok", "err"}}

\* q is made of whole lines: the two pieces of a record one behind the
\* other; open says that the last line may lack its second piece.
WholeLines(q, open) ==
    /\ \A i \in 1..Len(q) :
          IF i % 2 = 1
          THEN /\ q[i].part = 1
               /\ i < Len(q) \/ open
          ELSE q[i].part = 2 /\ q[i].of = q[i - 1].of

\* ------------------------------------------------------------------ claims

\* The record of an acknowledged xferred(path, filestat).
AckedTrack(p) == from_sftp_entry(p, acked[p])
\* The status is newer than the cutoff of a load at this time.
WithinAge(filestat) ==
    system_time_to_u64(filestat.mtime) > mtime_too_old(now, max_track_age)
\* The paths whose acknowledged record a load at this time must keep.
Owed == {p \in Utf8Paths : acked[p] # None /\ WithinAge(acked[p])}

\* C1: crash durability of xferred.  Once xferred(path, status) has returned
\* Ok, whenever the process ends afterwards, the next Tracker::new yields a
\* set holding a record of that path with the mtime and size of that status
\* (of the last such call for the path), as long as the mtime is within
\* max_track_age: new does not fail as corrupt and the record is in its set.
C1_CrashDurability ==
    /\ (pc = "up" /\ ret = "new_ok") => \A p \in Owed : AckedTrack(p) \in set
    /\ (pc = "down" /\ ret = "new_corrupt") => Owed = {}

\* C2: a failed xferred leaves the in-memory set as it was: every step in
\* which xferred returns Err keeps Tracker.set.
C2_FailedXferredKeepsSet ==
    [][(pc = "up" /\ pc' = "up" /\ ret' = "x_err") => set' = set]_vars

\* C3: after a commit that returned Ok the snapshot file holds exactly the
\* records of the in-memory set, one line each, and there is no WAL file.
C3_CommitWritesSet ==
    (pc = "up" /\ ret = "commit_ok") =>
        /\ snap.exists
        /\ RecordsOf(snap.lines) = set
        /\ Len(snap.lines) = Cardinality(set)
        /\ ~wal.exists

\* The lines of a file that hold a record of the path.
LinesOf(f, p) == {i \in 1..Len(f.lines) : f.lines[i][1] = display(p)}

\* C4: after any sequence of xferred calls that returned Ok, in whatever
\* order the workers made them, the snapshot that a commit returning Ok
\* leaves has one record per path, and for a path handed to xferred it is
\* the record of the last call for that path.
C4_LastXferredWins ==
    (pc = "up" /\ ret = "commit_ok") =>
        \A p \in Utf8Paths :
            /\ Cardinality(LinesOf(snap, p)) <= 1
            /\ last[p] # None =>
                 \E i \in LinesOf(snap, p) :
                     snap.lines[i] = TrackWrite(from_sftp_entry(p, last[p]))

\* A record of the file is newer than the cutoff of a load at this time.
HasWithinAge(f) ==
    \E t \in RecordsOf(f.lines) : t.lastmod > mtime_too_old(now, max_track_age)

\* C5: Tracker::new on any snapshot and WAL yields a set that holds every
\* record of either file that is within max_track_age and no record older
\* than that: new does not fail as corrupt while one of the two files holds
\* a record within max_track_age, and the set it returns holds no record
\* older than now - max_track_age.
C5_LoadKeepsWithinAge ==
    /\ (pc = "down" /\ ret = "new_corrupt") =>
          ~HasWithinAge(snap) /\ ~HasWithinAge(wal)
    /\ (pc = "up" /\ ret = "new_ok") =>
          \A t \in set : t.lastmod >= now - max_track_age

\* The file has a size and none of its lines parses as a record.
NothingParses(f) == FileLen(f) > 0 /\ RecordsOf(f.lines) = {}

\* C6: Tracker::new fails as corrupt only when the snapshot, or the WAL it
\* replays, has a size and zero lines that parse as records; a file whose
\* lines all parse, its records all older than max_track_age, loads.
C6_CorruptOnlyWhenNothingParses ==
    (pc = "down" /\ ret = "new_corrupt") =>
        NothingParses(snap) \/ NothingParses(wal)

\* C7: round trip.  When commit has written the set as the snapshot, one
\* line per record, Tracker::new's load of that snapshot with an unbounded
\* max_track_age succeeds and yields a set equal to the set written.
C7_RoundTrip ==
    (pc = "up" /\ ret = "commit_ok" /\ Len(snap.lines) = Cardinality(set)) =>
        LET r == entries_from(snap, {}, now, max_track_age) IN
        r.ok /\ r.set = set

\* C8: a commit called right after a commit that returned Ok, once it has
\* rewritten the snapshot, returns Ok too and leaves the set, the snapshot's
\* records and the absence of the WAL file as they were.
C8_RecommitIdempotent ==
    [][(op = "recommit" /\ pc = "c_rm" /\ pc' = "up") =>
          /\ ret' = "commit_ok"
          /\ set' = set
          /\ RecordsOf(snap'.lines) = set'
          /\ ~wal'.exists]_vars

\* C9: when commit returns the error of write_entries (create, write or
\* rename of the temporary snapshot), the WAL file is still on disk and
\* holds the record of every xferred the tracker acknowledged; and when the
\* process then ends, the next Tracker::new recovers those records (the
\* ones within max_track_age): it does not fail as corrupt and they are in
\* its set.
C9_FailedCommitKeepsWal ==
    /\ (pc = "up" /\ ret = "commit_err" /\ walOpen) =>
          /\ wal.exists
          /\ \A p \in Utf8Paths : last[p] # None =>
                \E i \in 1..Len(wal.lines) :
                    wal.lines[i] = TrackWrite(from_sftp_entry(p, last[p]))
    /\ (pc = "up" /\ ret = "new_ok") =>
          \A p \in owed \cap Owed : AckedTrack(p) \in set
    /\ (pc = "down" /\ ret = "new_corrupt") => owed \cap Owed = {}

\* C10: the snapshot is rewritten atomically: whenever the file at the
\* snapshot path changes, what it then holds is the complete set that
\* write_entries was given, one line per record.
C10_SnapshotAtomic ==
    [][snap' # snap =>
          /\ snap'.exists
          /\ RecordsOf(snap'.lines) = set
          /\ Len(snap'.lines) = Cardinality(set)]_vars

\* The record is a line of the snapshot or of the WAL.
OnDisk(t) ==
    \E f \in {snap, wal} : \E i \in 1..Len(f.lines) : f.lines[i] = TrackWrite(t)

\* C11: between Tracker::new and commit, after new and after every xferred
\* and insert_path_and_status that returned Ok, every record of the
\* in-memory set is in the snapshot file or in the WAL file.
C11_SetOnDisk ==
    (pc = "up" /\ walOpen /\ ret \in {"new_ok", "x_ok", "ins_ok"}) =>
        \A t \in set : OnDisk(t)

\* C19: identity is the path alone and an insert replaces: after
\* insert_path_and_status(p, s), and after an xferred(p, s) that returned
\* Ok, the set holds exactly one record of p, with the mtime and size of s.
C19_InsertReplaces ==
    [][\A p \in Utf8Paths, fs \in LiveStatuses :
          (InsertPathAndStatus(p, fs) \/ (Xferred(p, fs) /\ ret' = "x_ok")) =>
              {t \in set' : t.src_path = p} = {from_sftp_entry(p, fs)}]_vars

\* C12: a per-file I/O error in a transfer worker (stat, open, create, read,
\* write, rename) fails only that file: the worker that is in xfer_file stays
\* alive and goes back to recv.
C12_WorkerSurvivesFileError ==
    [][\A w \in 1..Threads :
          workers[w].pc \in {"stat", "create", "copy", "rename"} =>
              workers'[w].pc # "dead"]_vars

\* C13: tracker.xferred is called for a work item only when the file at the
\* final destination path is there with the full content of the source file.
C13_XferredOnlyWhenComplete ==
    \A w \in 1..Threads :
        workers[w].pc = "xferred" =>
            dst[workers[w].path] = DstFile(workers[w].path, TRUE, 0)

\* C14: every path the lister puts on the channel is received by exactly one
\* worker: never twice, and, once the workers are joined, never by none.
C14_ReceivedExactlyOnce ==
    /\ \A n \in SrcNames : hist.recvd[n] <= 1
    /\ phase = "COMMITTING" => \A n \in hist.sent : hist.recvd[n] = 1

\* C15: no two transfer workers write to the same destination path at the
\* same time: the file a worker has open for writing is changed or replaced
\* by no step of another worker.
C15_NoSharedDestination ==
    [][\A n \in DstNames : \A w \in 1..Threads :
          (dst[n].by = w /\ dst'[n] # dst[n]) =>
              (workers'[w] # workers[w] \/ phase' = "DONE")]_vars

\* C16: at every point of a run the file at the final destination path of a
\* source file, when it is a copy of that source file, holds its full content.
C16_FinalIsComplete ==
    \A n \in SrcNames : (dst[n] # NoDst /\ dst[n].of = n) => dst[n].full

\* C17: with disable_overwrite, no path that was in the tracker when the
\* lister filtered the listing is put on the work channel, whatever the
\* status of the source file.
C17_TrackedNeverQueued ==
    cli.disable_overwrite => hist.tracked \cap hist.sent = {}

C17_Witness ==
    /\ cli.disable_overwrite
    /\ lister.pc = "ok"
    /\ hist.tracked = {"a"}
    /\ check(set, "a", src["a"]) \notin {"None", "Equal"}
    /\ ".tmpa" \in hist.sent

\* C18: a run that follows a run which transferred files and committed, with
\* the same configuration and an unchanged source, puts none of the files the
\* first run recorded on the work channel, for every max_age and
\* max_track_age.
C18_SecondRunQueuesNothing ==
    hist.runs = MaxRuns => hist.sent \cap hist.done = {}

\* C20: the phases follow one another in the order INIT, LISTING, DRAINING,
\* COMMITTING, DONE, a failure going to DONE from anywhere; a sentinel is on
\* the channel only after the lister returned Ok; commit runs only when every
\* worker is joined, and no worker is about to call xferred on a tracker
\* whose WAL is closed; a run whose lister failed ends without a commit and
\* with a non-zero exit status.
PhaseOrder ==
    {<<"down", "INIT">>, <<"INIT", "LISTING">>, <<"LISTING", "DRAINING">>,
     <<"DRAINING", "COMMITTING">>, <<"COMMITTING", "DONE">>, <<"DONE", "INIT">>}
    \cup {<<ph, "DONE">> : ph \in {"INIT", "LISTING", "DRAINING"}}

C20_OrchestratorOrder ==
    [][/\ phase' # phase => <<phase, phase'>> \in PhaseOrder
       /\ sentinels' > 0 => lister'.pc = "ok"
       /\ phase' = "COMMITTING" => \A w \in 1..Threads : Ended(w)'
       /\ \A w \in 1..Threads : workers'[w].pc = "xferred" => walOpen'
       /\ (lister.pc = "err" /\ phase' # phase) =>
             (phase' = "DONE" /\ exit' # 0 /\ snap' = snap /\ wal' = wal)]_vars

C20_Witness ==
    /\ phase = "DONE"
    /\ exit = 0
    /\ hist.done = {"a", ".tmpa"}

\* ---- the threaded copy

\* A read or a write of the copy has failed.
Panicked == cp.reader.pc = "panic" \/ cp.writer.pc = "panic"

\* The buffers that are somewhere: in the empty queue, in the filled queue,
\* held by the reader, held by the writer.
Places ==
    cp.empty
    \o [i \in 1..Len(SelectSeq(cp.filled, LAMBDA item : item.some)) |->
           SelectSeq(cp.filled, LAMBDA item : item.some)[i].buf]
    \o cp.reader.held
    \o cp.writer.held

\* C27: whatever the length of the source, the size of the ring and of a
\* buffer, and however short the reads are, a threaded copy in which no read
\* and no write fails ends: both threads have returned, the writer has
\* written the bytes of the source, all of them and in their order, and
\* copier returns the length of the source.
C27_ThreadedCopy ==
    /\ [](cp.pc = "returned" /\ cp.ret.kind = "ok"
            => /\ cp.reader.pc = "done"
               /\ cp.writer.pc = "done"
               /\ cp.out = Source(cp.len)
               /\ cp.ret.n = cp.len)
    /\ <>(Panicked \/ (cp.pc = "returned" /\ cp.ret.kind = "ok"))

\* A source longer than a buffer, read short at least once through a ring of
\* one buffer, has been copied.
C27_Witness ==
    /\ cp.pc = "returned"
    /\ cp.ret = Ok(MaxLen)
    /\ cp.len = MaxLen
    /\ cp.ring = 1
    /\ cp.size = MaxBuf
    /\ cp.short
    /\ cp.out = Source(MaxLen)

\* C28: a read or a write that fails makes copier return an error: the join
\* of the two threads ends, no thread waits on a queue for ever.
C28_ErrorReturned == Panicked ~> (cp.pc = "returned" /\ cp.ret.kind = "err")

\* C29: the buffers in the empty queue, in the filled queue, with the reader
\* and with the writer are never more than the ring has, no buffer is in
\* two places, and the filled queue never holds more buffers than the ring.
C29_RingConserved ==
    cp.pc \in {"join", "returned"} =>
        /\ Len(Places) <= cp.ring
        /\ \A i, j \in 1..Len(Places) : Places[i].id = Places[j].id => i = j
        /\ \A i \in 1..Len(Places) : Places[i].id \in 1..cp.ring
        /\ Len(SelectSeq(cp.filled, LAMBDA item : item.some)) <= cp.ring

\* Every buffer of the largest ring is in the filled queue, and the writer
\* has already handed one back once.
C29_Witness ==
    /\ cp.ring = MaxRing
    /\ Len(cp.filled) = MaxRing
    /\ \A i \in 1..MaxRing : cp.filled[i].some
    /\ cp.out # <<>>

\* ---- the pool of stat threads

\* The entries of the result that are of path.
Entries(path) == {i \in 1..Len(pool.ret) : pool.ret[i].path = path}

\* C30: the result of get_stats_fast holds one entry, the path and its
\* status, for every path of the list whose stat succeeds, and none for a
\* path whose stat fails: a stat that fails drops its own entry and no other.
C30_OnlyFailedDropped ==
    pool.pc = "returned" =>
        \A path \in pool.given :
            IF src[path] = NoEntry
            THEN Entries(path) = {}
            ELSE /\ Cardinality(Entries(path)) = 1
                 /\ \A i \in Entries(path) : pool.ret[i].filestat = src[path]

\* ---- the end of the run

\* C21: under fair scheduling, once the lister has finished and one sentinel
\* for each worker is sent, every worker ends and the run ends.
C21_RunTerminates ==
    (phase = "DRAINING" /\ sentinels = Threads) ~> (phase = "DONE")

\* ---- the filters

\* The age of the file keep_status was called on: now - mtime, 0 for a mtime
\* that is after now.
CalledAge ==
    IF src[call.path].mtime > now THEN 0 ELSE now - src[call.path].mtime

\* The tracker holds a record of the path keep_status was called on, with the
\* size and the mtime in seconds of the file.
CalledUnchanged ==
    \E u \in set : /\ u.src_path = call.path
                   /\ u.size = src[call.path].size
                   /\ u.lastmod = src[call.path].mtime

\* C22: keep_status answers NOT_A_FILE for what is not a regular file; else
\* TOO_OLD for an age above max_age, TOO_YOUNG for an age below min_age (an
\* age of max_age or of min_age is neither); else, when overwrite is not
\* disabled, NOT_CHANGED exactly when the tracker holds the path with this
\* size and this mtime; else 0.
C22_KeepStatusTable ==
    call.op = "keep_status" =>
        call.ret = IF src[call.path].file_type # "Regular" THEN FILE_NOT_A_FILE
                   ELSE IF CalledAge > cli.max_age THEN FILE_TOO_OLD
                   ELSE IF CalledAge < cli.min_age THEN FILE_TOO_YOUNG
                   ELSE IF ~cli.disable_overwrite /\ CalledUnchanged
                        THEN SRC_FILE_NOT_CHANGED
                   ELSE 0

\* A file modified after now, with max_age and min_age both 0, and in the
\* tracker with another mtime: it is as old as both limits, and eligible.
C22_Witness ==
    /\ call.op = "keep_status"
    /\ call.ret = 0
    /\ src[call.path].file_type = "Regular"
    /\ src[call.path].mtime > now
    /\ cli.max_age = 0
    /\ cli.min_age = 0
    /\ ~cli.disable_overwrite
    /\ \E u \in set : u.src_path = call.path /\ u.size = src[call.path].size

\* C23: keep_path accepts a path exactly when its final component matches
\* the regular expression, does not begin with a dot unless
\* include_dot_files is set, and is not in the tracker unless overwrite is
\* enabled; a path with no final component is rejected.
C23_KeepPathRule ==
    call.op = "keep_path" =>
        (call.ret = TRUE <=>
            /\ call.path \notin NoFileName
            /\ call.path \in cli.re
            /\ call.path \in DotNames => cli.include_dot_files
            /\ ~cli.disable_overwrite \/ \A u \in set : u.src_path # call.path)

\* With overwrite disabled, a file the regular expression matches, not a
\* dot file, was rejected: the tracker holds it.
C23_Witness ==
    /\ call.op = "keep_path"
    /\ call.ret = FALSE
    /\ call.path \in cli.re
    /\ call.path \notin DotNames \cup NoFileName
    /\ cli.disable_overwrite
    /\ path_exists_in_tracker(set, call.path)

\* ---- the lister and the worker, file by file

\* C24: when the lister has returned Ok, a path keep_status found too young
\* or unchanged was neither sent nor inserted into the tracker by the
\* lister; a path that is not a file or too old was not sent, and was
\* inserted exactly when add_all_to_tracker is set; an eligible path of a
\* run that is not a dry run was sent once, as found or after the listing.
C24_ListerRouting ==
    lister.pc = "ok" =>
        \A n \in SrcNames :
            /\ hist.class[n] \in {"young", "unchanged"} =>
                  hist.sends[n] = 0 /\ n \notin hist.inserted
            /\ hist.class[n] = "never" =>
                  hist.sends[n] = 0 /\ (n \in hist.inserted <=> cli.add_all_to_tracker)
            /\ hist.class[n] = "eligible" /\ ~cli.dry_run => hist.sends[n] = 1
            /\ hist.class[n] = "none" => hist.sends[n] = 0 /\ n \notin hist.inserted

\* With add_all_to_tracker the directory "a" went into the tracker and the
\* eligible file ".tmpa" on the channel, once.
C24_Witness ==
    /\ lister.pc = "ok"
    /\ cli.add_all_to_tracker
    /\ hist.class["a"] = "never"
    /\ "a" \in hist.inserted
    /\ path_exists_in_tracker(set, "a")
    /\ hist.class[".tmpa"] = "eligible"
    /\ hist.sends[".tmpa"] = 1

\* C25: in a dry run nothing is sent and nothing is copied, and the tracker
\* is updated all the same: when the run commits, every eligible file of the
\* listing is in the tracker.
C25_DryRunTracks ==
    cli.dry_run /\ phase = "COMMITTING" =>
        /\ hist.sent = {}
        /\ \A n \in DstNames : dst[n] # NoDst => n = "a" /\ dst[n] = DstFile("a", TRUE, 0)
        /\ \A n \in SrcNames : hist.class[n] = "eligible" => path_exists_in_tracker(set, n)

\* C26: with disable_overwrite, a worker whose file is at its final path
\* already does not go on to create the temporary file: the item is skipped.
C26_NoOverwrite ==
    [][\A w \in 1..Threads :
          /\ cli.disable_overwrite
          /\ workers[w].pc = "stat"
          /\ dst[workers[w].path] # NoDst
          => workers'[w].pc # "create"]_vars

\* ---- the threaded copy, any sizes

\* C39: for a ring of any size and buffers of any size, 0 too, copier does
\* not return Ok on a short copy: when it returns Ok, it returns the length
\* of the source and the writer has written that many bytes.
C39_NoShortCopy ==
    cp.pc = "returned" /\ cp.ret.kind = "ok" =>
        cp.ret.n = cp.len /\ Len(cp.out) = cp.len

\* ---- the tracker: recovery

\* C33: when Tracker::new has replayed a WAL that was not empty and returns
\* Ok, the snapshot on disk holds exactly the records of the in-memory set,
\* one line each, and the WAL is a fresh file with nothing in it.
C33_RecoveryPostState ==
    [][(op = "new" /\ pc = "n_create" /\ pc' = "up" /\ ret' = "new_ok") =>
          /\ snap'.exists
          /\ RecordsOf(snap'.lines) = set'
          /\ Len(snap'.lines) = Cardinality(set')
          /\ wal' = FileOf(<<>>)]_vars

\* The process is killed inside Tracker::new, after the replay of the WAL, or
\* inside commit.
KilledInside ==
    /\ \/ pc \in {"we_create", "we_write", "we_rename", "n_rm", "c_close", "c_rm"}
       \/ pc = "n_create" /\ op = "new"
    /\ pc' = "down"
    /\ ret' = "none"

\* C35: when the process is killed inside Tracker::new or inside commit, the
\* next Tracker::new, when it loads the files the kill has left, loses no
\* record of an xferred that returned Ok (and is within max_track_age).
C35_CrashIdempotent ==
    [][KilledInside =>
          LET r == TrackerNew(snap', wal', now, max_track_age) IN
          r.ok => \A p \in Owed : AckedTrack(p) \in r.set]_vars

\* ---- the run: what a status of 0 says

\* C36: when run has committed and returns Ok, every item the lister put on
\* the channel was received by a worker, and the worker has handled it: its
\* xferred has returned Ok.
C36_NothingStranded ==
    [][(phase = "COMMITTING" /\ phase' = "DONE" /\ exit' = 0) =>
          \A n \in hist.sent : hist.recvd[n] >= 1 /\ n \in hist.recorded]_vars

C37_DecisionsFromLoadedSet ==
    [][(phase = "LISTING" /\ phase' = "LISTING") =>
          \A n \in SrcNames :
             /\ hist'.class[n] # hist.class[n] =>
                   hist'.class[n] = Class(keep_status(cli, n, src[n], hist.loaded, now))
             /\ n \in hist'.sent \ hist.sent =>
                   /\ keep_path(cli, n, hist.loaded)
                   /\ keep_status(cli, n, src[n], hist.loaded, now) = 0]_vars

C37_Witness ==
    /\ phase = "LISTING"
    /\ ~cli.disable_queue_as_found
    /\ ~cli.disable_overwrite
    /\ lister.pc = "keep_status"
    /\ lister.list # <<>>
    /\ hist.class[Head(lister.list)] = "none"
    /\ hist.recorded # {}
    /\ set # hist.loaded

\* C31: every thread that is inside the construction of an sftp session,
\* run as well as a transfer worker, holds a permit of SSH_SEMA, and the
\* threads inside one are never more than number_of_ssh_startups.
C31_AdmissionControl ==
    /\ InConstruction \subseteq startup.held
    /\ Cardinality(InConstruction) <= startup.number_of_ssh_startups

\* C32: a transfer worker ends on a failure of the construction of its
\* sessions only when it has constructed them twice: the first failure is
\* followed by one more try.
C32_RetryOnce ==
    [][\A w \in 1..Threads :
          (startup.xfer[w].pc \in {"in_src", "in_dst"} /\ startup'.xfer[w].pc = "dead")
              => startup.xfer[w].tries = 2]_vars

\* C40: when run has joined its workers, the files it has counted are the
\* files whose copy completed and whose final name was put in place, and the
\* bytes it has counted are the bytes of those files.
C40_TotalsAreTransferred ==
    totals.pc = "joined" =>
        /\ totals.count = totals.placed.files
        /\ totals.size = totals.placed.bytes

\* C34: the pieces the workers write to the WAL never interleave: the WAL is
\* made of whole lines, but for the line of the one worker that is writing
\* it; and while the lister holds the tracker for path_exists_in_tracker or
\* check, no worker is in the middle of an xferred: the set it reads holds
\* exactly the records whose lines are in the WAL.
C34_WriteLockExcludes ==
    /\ Cardinality(InXferred) <= 1
    /\ WholeLines(WalPieces, \E w \in InXferred : rw.thr[w].pc = "write2")
    /\ rw.thr[0].pc = "reading" =>
          /\ InXferred = {}
          /\ rw.set = {WalPieces[i].of : i \in 1..Len(WalPieces)}

C34_Witness ==
    /\ rw.thr[0].pc = "reading"
    /\ rw.set # {}
    /\ \E w \in 1..Threads : rw.thr[w].pc = "idle" /\ rw.thr[w].n = 0

====
